---- MODULE Spec2Model ----
(***************************************************************************)
(* Model of the grammar correction engine of pratik-grammars               *)
(* (src/src/grammar_app/services.py): the rule cascade, the generative     *)
(* model adapter with its output clean-up, and the orchestration policy    *)
(* of GrammarCorrectionService.correct_grammar; the lazily constructed     *)
(* service singleton under threads; and the HTTP layer around the engine   *)
(* (auth.py, crud.py, routes/grammar.py, routes/users.py,                  *)
(* routes/database.py), with the loop of the cascade rule by rule, the     *)
(* server's event loop and the user management routes.                     *)
(*                                                                         *)
(* Texts are TLA+ strings; a character is a string of length one.          *)
(***************************************************************************)
EXTENDS Integers, Sequences, FiniteSets, TLC

(***************************************************************************)
(* Characters: the part of Python's str / re semantics the rules use.      *)
(***************************************************************************)
LowerLetters == "abcdefghijklmnopqrstuvwxyz"

UpperLetters == "ABCDEFGHIJKLMNOPQRSTUVWXYZ"

Digits == "0123456789"

CharAt(s, i) == SubSeq(s, i, i)

\* position of character c in string str, 0 when absent
IndexIn(c, str) ==
    IF \E i \in 1..Len(str) : CharAt(str, i) = c
    THEN CHOOSE i \in 1..Len(str) : CharAt(str, i) = c
    ELSE 0

\* the characters of a string, as a set
CharsOf(str) == {CharAt(str, i) : i \in 1..Len(str)}

LowerSet == CharsOf(LowerLetters)

UpperSet == CharsOf(UpperLetters)

WordSet == LowerSet \cup UpperSet \cup CharsOf(Digits) \cup {"_"}

LowerOf == [c \in UpperSet |-> CharAt(LowerLetters, IndexIn(c, UpperLetters))]

UpperOf == [c \in LowerSet |-> CharAt(UpperLetters, IndexIn(c, LowerLetters))]

\* str.islower() of one character
IsLower(c) == c \in LowerSet

IsUpper(c) == c \in UpperSet

\* str.lower() of one character
ToLower(c) == IF IsUpper(c) THEN LowerOf[c] ELSE c

\* str.upper() of one character
ToUpper(c) == IF IsLower(c) THEN UpperOf[c] ELSE c

\* the characters str.strip() removes and \s matches
IsSpace(c) == c \in {" ", "\t", "\n", "\r"}

\* the characters \w matches
IsWord(c) == c \in WordSet

RECURSIVE LowerStr(_)
\* str.lower()
LowerStr(s) == IF s = "" THEN "" ELSE ToLower(CharAt(s, 1)) \o LowerStr(Tail(s))

RECURSIVE LStrip(_)
LStrip(s) == IF s # "" /\ IsSpace(CharAt(s, 1)) THEN LStrip(Tail(s)) ELSE s

RECURSIVE RStrip(_)
RStrip(s) ==
    IF s # "" /\ IsSpace(CharAt(s, Len(s))) THEN RStrip(SubSeq(s, 1, Len(s) - 1)) ELSE s

\* str.strip()
Strip(s) == RStrip(LStrip(s))

\* str.startswith(prefix), case-sensitive
StartsWith(s, prefix) ==
    Len(s) >= Len(prefix) /\ SubSeq(s, 1, Len(prefix)) = prefix

RECURSIVE Replace(_, _, _)
\* str.replace(old, new) for non-empty old: every occurrence, left to right
Replace(s, old, new) ==
    IF Len(s) < Len(old) THEN s
    ELSE IF StartsWith(s, old)
         THEN new \o Replace(SubSeq(s, Len(old) + 1, Len(s)), old, new)
         ELSE CharAt(s, 1) \o Replace(Tail(s), old, new)

(***************************************************************************)
(* Regular expressions: a pattern is a sequence of elements, matched with  *)
(* re's ordered backtracking under re.IGNORECASE.                          *)
(***************************************************************************)
\* \b
WB == [t |-> "wb"]

\* alternation of literals, lit1|lit2|...
Alt(alts) == [t |-> "alt", alts |-> alts]

\* ( and ) of capture group g
Open(g) == [t |-> "open", g |-> g]

Close(g) == [t |-> "close", g |-> g]

\* one character of a class, class+ and class*
One(cls) == [t |-> "rep", cls |-> cls, min |-> 1, max |-> 1]

Plus(cls) == [t |-> "rep", cls |-> cls, min |-> 1, max |-> -1]

Star(cls) == [t |-> "rep", cls |-> cls, min |-> 0, max |-> -1]

\* (lit1|lit2|...) as capture group g
Grp(g, alts) == <<Open(g), Alt(alts), Close(g)>>

\* membership of character c in a class, under re.IGNORECASE
InClass(c, cls) ==
    CASE cls = "\\s" -> IsSpace(c)
      [] cls = "\\w" -> IsWord(c)
      [] cls = "[a-z]" -> IsLower(ToLower(c))
      [] cls = "[aeiou]" -> ToLower(c) \in {"a", "e", "i", "o", "u"}
      [] cls = "[bcdfghjklmnpqrstvwxyz]" ->
            IsLower(ToLower(c)) /\ ToLower(c) \notin {"a", "e", "i", "o", "u"}
      [] cls = "[.!?]" -> c \in {".", "!", "?"}

\* \b holds at position i of s (between s[i-1] and s[i])
AtBoundary(s, i) ==
    LET before == i > 1 /\ IsWord(CharAt(s, i - 1))
        after == i <= Len(s) /\ IsWord(CharAt(s, i))
    IN before # after

\* literal lit matches s at i, ignoring case
LitAt(s, i, lit) ==
    i + Len(lit) - 1 <= Len(s) /\ LowerStr(SubSeq(s, i, i + Len(lit) - 1)) = LowerStr(lit)

RECURSIVE RunLen(_, _, _)
\* number of consecutive characters of class cls in s from position i
RunLen(s, i, cls) ==
    IF i <= Len(s) /\ InClass(CharAt(s, i), cls) THEN 1 + RunLen(s, i + 1, cls) ELSE 0

NoMatch == [ok |-> FALSE]

\* the element of a one-element set: Only({f(v) : v \in {e}}) is f(e) with e
\* evaluated once
Only(S) == CHOOSE x \in S : TRUE

NoCaps == [g \in 1..2 |-> <<0, 0>>]

RECURSIVE MatchFrom(_, _, _, _, _)
RECURSIVE TryAlts(_, _, _, _, _, _)
RECURSIVE TryLen(_, _, _, _, _, _)

\* match elements k.. of pattern p against s at position i; the first
\* success in re's priority order, as [ok, e (end, exclusive), caps]
MatchFrom(p, k, s, i, caps) ==
    IF k > Len(p) THEN [ok |-> TRUE, e |-> i, caps |-> caps]
    ELSE LET el == p[k] IN
         CASE el.t = "wb" ->
                IF AtBoundary(s, i) THEN MatchFrom(p, k + 1, s, i, caps) ELSE NoMatch
           [] el.t = "open" ->
                MatchFrom(p, k + 1, s, i, [caps EXCEPT ![el.g] = <<i, i>>])
           [] el.t = "close" ->
                MatchFrom(p, k + 1, s, i, [caps EXCEPT ![el.g] = <<caps[el.g][1], i>>])
           [] el.t = "alt" -> TryAlts(p, k, s, i, caps, 1)
           [] el.t = "rep" ->
                LET run == RunLen(s, i, el.cls)
                    n == IF el.max >= 0 /\ run > el.max THEN el.max ELSE run
                IN TryLen(p, k, s, i, caps, n)

\* alternatives a.. of the alternation p[k], in order
TryAlts(p, k, s, i, caps, a) ==
    IF a > Len(p[k].alts) THEN NoMatch
    ELSE LET lit == p[k].alts[a]
             rest == IF LitAt(s, i, lit)
                     THEN MatchFrom(p, k + 1, s, i + Len(lit), caps)
                     ELSE NoMatch
         IN Only({IF m.ok THEN m ELSE TryAlts(p, k, s, i, caps, a + 1) : m \in {rest}})

\* greedy repetition p[k]: n characters, then n-1, ... down to its minimum
TryLen(p, k, s, i, caps, n) ==
    IF n < p[k].min THEN NoMatch
    ELSE Only({IF m.ok THEN m ELSE TryLen(p, k, s, i, caps, n - 1) :
                  m \in {MatchFrom(p, k + 1, s, i + n, caps)}})

RECURSIVE Expand(_, _, _)
\* expansion of a replacement template: "\\1", "\\2" are group references
Expand(tpl, s, caps) ==
    IF tpl = <<>> THEN ""
    ELSE LET h == Head(tpl)
             piece == CASE h = "\\1" -> SubSeq(s, caps[1][1], caps[1][2] - 1)
                        [] h = "\\2" -> SubSeq(s, caps[2][1], caps[2][2] - 1)
                        [] OTHER -> h
         IN piece \o Expand(Tail(tpl), s, caps)

RECURSIVE SubFrom(_, _, _)
\* re.sub from position i: leftmost non-overlapping matches replaced
SubFrom(rule, s, i) ==
    IF i > Len(s) THEN ""
    ELSE Only({IF m.ok /\ m.e > i
               THEN Expand(rule.repl, s, m.caps) \o SubFrom(rule, s, m.e)
               ELSE CharAt(s, i) \o SubFrom(rule, s, i + 1) :
                  m \in {MatchFrom(rule.pat, 1, s, i, NoCaps)}})

\* re.sub(pattern, replacement, s, flags=re.IGNORECASE)
ReSub(rule, s) == SubFrom(rule, s, 1)

(***************************************************************************)
(* The rule table of _apply_basic_grammar_rules, in declaration order.     *)
(***************************************************************************)
\* \s+
SP == Plus("\\s")

Rule(pat, repl) == [pat |-> pat, repl |-> repl]

\* \b(a1|..)\s+(b1|..)\b
Pair(a, b) == <<WB>> \o Grp(1, a) \o <<SP>> \o Grp(2, b) \o <<WB>>

\* \b(a1|..)\s+(b1|..)\s+
PairSp(a, b) == <<WB>> \o Grp(1, a) \o <<SP>> \o Grp(2, b) \o <<SP>>

\* \b(w1|w2|..)\b
Word(alts) == <<WB>> \o Grp(1, alts) \o <<WB>>

\* \bsubj\s+aux\s+done\s+ with subj in group g (g = 0: no group)
Done(g, subj, aux) ==
    <<WB>> \o (IF g = 0 THEN <<Alt(subj)>> ELSE Grp(g, subj))
           \o <<SP, Alt(<<aux>>), SP, Alt(<<"done">>), SP>>

\* (\w+ing)\b as group g
Ing(g) == <<Open(g), Plus("\\w"), Alt(<<"ing">>), Close(g), WB>>

\* \b(a1|..)\s+and\s+(b1|..)\b
AndPair(a, b) ==
    <<WB>> \o Grp(1, a) \o <<SP, Alt(<<"and">>), SP>> \o Grp(2, b) \o <<WB>>

corrections == <<
    \* Subject-verb agreement for "is" vs "are"
    Rule(Pair(<<"you">>, <<"is">>), <<"\\1", " are">>),
    Rule(Pair(<<"we">>, <<"is">>), <<"\\1", " are">>),
    Rule(Pair(<<"they">>, <<"is">>), <<"\\1", " are">>),
    Rule(Pair(<<"I">>, <<"are">>), <<"\\1", " am">>),
    Rule(Pair(<<"he">>, <<"are">>), <<"\\1", " is">>),
    Rule(Pair(<<"she">>, <<"are">>), <<"\\1", " is">>),
    Rule(Pair(<<"it">>, <<"are">>), <<"\\1", " is">>),
    \* Subject-verb agreement - more specific rules
    Rule(PairSp(<<"he", "she", "it">>, <<"am", "are">>), <<"\\1", " is ">>),
    Rule(PairSp(<<"I">>, <<"are", "is">>), <<"\\1", " am ">>),
    Rule(PairSp(<<"we", "you", "they">>, <<"am", "is">>), <<"\\1", " are ">>),
    Rule(PairSp(<<"I", "he", "she", "it">>, <<"go", "goes">>), <<"\\1", " goes ">>),
    Rule(PairSp(<<"we", "you", "they">>, <<"goes">>), <<"\\1", " go ">>),
    \* Past perfect tense corrections
    Rule(Done(0, <<"I">>, "had") \o <<Alt(<<"playing">>), WB>>, <<"I had finished playing">>),
    Rule(Done(0, <<"I">>, "had") \o Ing(1), <<"I had finished ", "\\1">>),
    Rule(Done(1, <<"he", "she", "it">>, "had") \o Ing(2), <<"\\1", " had finished ", "\\2">>),
    Rule(Done(1, <<"we", "you", "they">>, "had") \o Ing(2), <<"\\1", " had finished ", "\\2">>),
    \* Present perfect tense corrections
    Rule(Done(0, <<"I">>, "have") \o <<Alt(<<"playing">>), WB>>, <<"I have finished playing">>),
    Rule(Done(0, <<"I">>, "have") \o Ing(1), <<"I have finished ", "\\1">>),
    \* Articles
    Rule(<<WB>> \o Grp(1, <<"a">>) \o <<SP, Open(2), One("[aeiou]"), Star("[a-z]"), Close(2), WB>>,
         <<"an ", "\\2">>),
    Rule(<<WB>> \o Grp(1, <<"an">>)
              \o <<SP, Open(2), One("[bcdfghjklmnpqrstvwxyz]"), Star("[a-z]"), Close(2), WB>>,
         <<"a ", "\\2">>),
    \* Common contractions
    Rule(Word(<<"do not", "don't">>), <<"don't">>),
    Rule(Word(<<"does not", "doesn't">>), <<"doesn't">>),
    Rule(Word(<<"can not", "cannot", "can't">>), <<"can't">>),
    Rule(Word(<<"will not", "won't">>), <<"won't">>),
    Rule(Word(<<"should not", "shouldn't">>), <<"shouldn't">>),
    Rule(Word(<<"would not", "wouldn't">>), <<"wouldn't">>),
    Rule(Word(<<"could not", "couldn't">>), <<"couldn't">>),
    Rule(Word(<<"has not", "hasn't">>), <<"hasn't">>),
    Rule(Word(<<"have not", "haven't">>), <<"haven't">>),
    Rule(Word(<<"had not", "hadn't">>), <<"hadn't">>),
    Rule(Word(<<"is not", "isn't">>), <<"isn't">>),
    Rule(Word(<<"are not", "aren't">>), <<"aren't">>),
    Rule(Word(<<"was not", "wasn't">>), <<"wasn't">>),
    Rule(Word(<<"were not", "weren't">>), <<"weren't">>),
    \* Fix common informal contractions
    Rule(Word(<<"dont">>), <<"don't">>),
    Rule(Word(<<"doesnt">>), <<"doesn't">>),
    Rule(Word(<<"cant">>), <<"can't">>),
    Rule(Word(<<"wont">>), <<"won't">>),
    Rule(Word(<<"shouldnt">>), <<"shouldn't">>),
    Rule(Word(<<"wouldnt">>), <<"wouldn't">>),
    Rule(Word(<<"couldnt">>), <<"couldn't">>),
    Rule(Word(<<"hasnt">>), <<"hasn't">>),
    Rule(Word(<<"havent">>), <<"haven't">>),
    Rule(Word(<<"hadnt">>), <<"hadn't">>),
    Rule(Word(<<"isnt">>), <<"isn't">>),
    Rule(Word(<<"arent">>), <<"aren't">>),
    Rule(Word(<<"wasnt">>), <<"wasn't">>),
    Rule(Word(<<"werent">>), <<"weren't">>),
    \* Capitalization fixes
    Rule(Word(<<"i">>), <<"I">>),
    Rule(Word(<<"hello", "hi">>), <<"Hello">>),
    Rule(Word(<<"bye", "goodbye">>), <<"Goodbye">>),
    \* Advanced grammar rules
    Rule(AndPair(<<"me">>, <<"him", "her", "them">>), <<"\\2", " and I">>),
    Rule(AndPair(<<"him", "her", "them">>, <<"me">>), <<"\\1", " and I">>),
    Rule(AndPair(<<"me">>, <<"I">>), <<"\\2", " and I">>),
    Rule(AndPair(<<"I">>, <<"me">>), <<"I and I">>),
    \* Fix common informal phrases
    Rule(Word(<<"gonna">>), <<"going to">>),
    Rule(Word(<<"wanna">>), <<"want to">>),
    Rule(Word(<<"gotta">>), <<"got to">>),
    Rule(Word(<<"lemme">>), <<"let me">>),
    Rule(Word(<<"gimme">>), <<"give me">>),
    \* Fix double negatives
    Rule(<<WB>> \o Grp(1, <<"not">>) \o <<SP, Plus("\\w"), SP>> \o Grp(2, <<"not">>) \o <<WB>>,
         <<"\\1", " ", "\\2">>),
    \* Fix common word confusions
    Rule(Pair(<<"their">>, <<"there">>), <<"they're there">>),
    Rule(Pair(<<"there">>, <<"their">>), <<"there they're">>),
    Rule(Pair(<<"your">>, <<"you're">>), <<"you're">>),
    Rule(Pair(<<"you're">>, <<"your">>), <<"your">>),
    Rule(Pair(<<"its">>, <<"it's">>), <<"it's">>),
    Rule(Pair(<<"it's">>, <<"its">>), <<"its">>),
    \* Punctuation
    Rule(<<SP, Open(1), One("[.!?]"), Close(1)>>, <<"\\1">>),
    Rule(<<Open(1), One("[.!?]"), Close(1), Star("\\s"), Open(2), One("[a-z]"), Close(2)>>,
         <<"\\1", " ", "\\2">>),
    Rule(<<SP>>, <<" ">>)
>>

RECURSIVE ApplyRules(_, _, _)
\* the loop over corrections, rules lo..hi in order: each rule is applied
\* to the buffer the rules before it produced
ApplyRules(lo, hi, buf) ==
    IF lo = hi THEN ReSub(corrections[lo], buf)
    ELSE LET mid == (lo + hi) \div 2
         IN Only({ApplyRules(mid + 1, hi, corrected) :
                     corrected \in {ApplyRules(lo, mid, buf)}})

\* "Capitalize first letter"
CapitalizeFirst(s) ==
    IF s # "" /\ IsLower(CharAt(s, 1)) THEN ToUpper(CharAt(s, 1)) \o Tail(s) ELSE s

\* the cascade without its final trim
ApplyBasicGrammarRules_NoStrip(text) ==
    IF text = "" THEN text
    ELSE CapitalizeFirst(ApplyRules(1, Len(corrections), text))

\* GrammarCorrectionService._apply_basic_grammar_rules(text)
ApplyBasicGrammarRules(text) ==
    IF text = "" THEN text
    ELSE Strip(CapitalizeFirst(ApplyRules(1, Len(corrections), text)))

(***************************************************************************)
(* Bounds and inputs.                                                      *)
(***************************************************************************)
\* number of calls made on the service in one behaviour
MaxCalls == 2

\* texts handed to the service; the first two are empty / whitespace-only
Inputs == {"", " \t\n", "you is", "how is you?", "she dont like it",
           "It works.", "OK"}

\* result of the rule cascade on each input, computed once
RulesTable == [t \in Inputs |-> ApplyBasicGrammarRules(t)]

BasicCorrected(text) == RulesTable[text]

(***************************************************************************)
(* Outcomes of calls: a returned value or a raised exception.              *)
(***************************************************************************)
Return(v) == [raised |-> FALSE, value |-> v]

Raise == [raised |-> TRUE, value |-> ""]

None == "None"

Loaded == "loaded"

\* what the environment lets the model / tokenizer loading do
LoadOutcomes == {"ok", "model_fails", "tokenizer_fails", "pipeline_fails"}

\* what self.pipeline(text, ...) does when it is invoked: it raises, or it
\* returns a list of {"generated_text": ...} records
GenRaise == [raised |-> TRUE, result |-> <<>>]

GenResult(texts) == [raised |-> FALSE, result |-> texts]

Generated(text) ==
    {text, LowerStr(text), "grammar: " \o text \o "\n", "grammar:", "",
     "It is fine.", "Corrected: It is fine.", "Corrected text:It is fine.",
     "Correct the grammar in this text: It is fine.",
     "grammar: see grammar: notes"}

PipelineOutcomes(text) ==
    {GenRaise, GenResult(<<>>)} \cup {GenResult(<<g>>) : g \in Generated(text)}

(***************************************************************************)
(* GrammarCorrectionService                                                *)
(***************************************************************************)
\* GrammarCorrectionService._load_model, after __init__ set the three
\* attributes to None: the attributes it leaves behind
LoadModel(loadOutcome) ==
    CASE loadOutcome = "ok" ->
            [model |-> Loaded, tokenizer |-> Loaded, pipeline |-> Loaded]
      [] loadOutcome = "model_fails" ->
            [model |-> None, tokenizer |-> None, pipeline |-> None]
      [] loadOutcome = "tokenizer_fails" ->
            [model |-> Loaded, tokenizer |-> None, pipeline |-> None]
      [] loadOutcome = "pipeline_fails" ->
            [model |-> Loaded, tokenizer |-> Loaded, pipeline |-> None]

\* "Clean up the response - remove any prompt prefixes"
CleanPrefix(corrected) ==
    IF StartsWith(corrected, "grammar:")
    THEN Strip(Replace(corrected, "grammar:", ""))
    ELSE IF StartsWith(corrected, "Correct the grammar in this text:")
    THEN Strip(Replace(corrected, "Correct the grammar in this text:", ""))
    ELSE IF StartsWith(corrected, "Corrected text:")
    THEN Strip(Replace(corrected, "Corrected text:", ""))
    ELSE IF StartsWith(corrected, "Corrected:")
    THEN Strip(Replace(corrected, "Corrected:", ""))
    ELSE corrected

\* _correct_with_ai without its try/except: a failure propagates
CorrectWithAi_NoHandler(self, text, gen) ==
    IF self.pipeline = None
    THEN [ret |-> Raise, invoked |-> 0, prompts |-> <<>>]
    ELSE IF gen.raised
    THEN [ret |-> Raise, invoked |-> 1, prompts |-> <<text>>]
    ELSE IF Len(gen.result) > 0
    THEN LET corrected == CleanPrefix(Strip(gen.result[1]))
         IN IF corrected = text \/ corrected = ""
            THEN [ret |-> Return(text), invoked |-> 1, prompts |-> <<text>>]
            ELSE [ret |-> Return(corrected), invoked |-> 1, prompts |-> <<text>>]
    ELSE [ret |-> Return(text), invoked |-> 1, prompts |-> <<text>>]

\* GrammarCorrectionService._correct_with_ai(text); gen is what the pipeline
\* does if invoked.  [ret, invoked, prompts]: the outcome, the number of
\* pipeline invocations made and the texts the pipeline was invoked with.
CorrectWithAi(self, text, gen) ==
    IF self.pipeline = None
    THEN \* calling None raises TypeError inside the try: caught
         [ret |-> Return(text), invoked |-> 0, prompts |-> <<>>]
    ELSE IF gen.raised
    THEN \* except Exception
         [ret |-> Return(text), invoked |-> 1, prompts |-> <<text>>]
    ELSE IF Len(gen.result) > 0
    THEN LET corrected == CleanPrefix(Strip(gen.result[1]))
         IN IF corrected = text \/ corrected = ""
            THEN [ret |-> Return(text), invoked |-> 1, prompts |-> <<text>>]
            ELSE [ret |-> Return(corrected), invoked |-> 1, prompts |-> <<text>>]
    ELSE [ret |-> Return(text), invoked |-> 1, prompts |-> <<text>>]

Step(name, out) == [step |-> name, out |-> out]

\* only the empty text is returned early
IsBlank_EmptyOnly(text) == text = ""

\* "if not text or not text.strip()"
IsBlank(text) == text = "" \/ Strip(text) = ""

\* the comparison of strategy 1 inverted
ShortCircuit_Inverted(basic_corrected, text) == basic_corrected = text

\* "if basic_corrected != text" of strategy 1
ShortCircuit(basic_corrected, text) == basic_corrected # text

\* the model arm guarded by the pipeline alone
UseAi_IgnoresFlag(self, cfg) == self.pipeline # None

\* the model arm guarded by the setting alone
UseAi_IgnoresHealth(self, cfg) == cfg.USE_AI_MODEL_FALLBACK

\* "if self.pipeline and settings.USE_AI_MODEL_FALLBACK"
UseAi(self, cfg) == self.pipeline # None /\ cfg.USE_AI_MODEL_FALLBACK

\* any non-empty answer of the model arm accepted
AcceptAi_NoCompare(ai_corrected, text) == ai_corrected # ""

\* "if ai_corrected and ai_corrected != text and len(ai_corrected) > 0"
AcceptAi(ai_corrected, text) ==
    ai_corrected # "" /\ ai_corrected # text /\ Len(ai_corrected) > 0

\* strategy 3 run whatever the setting
RulesFallback_Always(cfg) == TRUE

\* strategy 3 never run
RulesFallback_Never(cfg) == FALSE

\* "if not settings.USE_BASIC_RULES_FIRST" of strategy 3
RulesFallback(cfg) == ~cfg.USE_BASIC_RULES_FIRST

\* the strategies composed: the rule cascade run on the model's answer
CorrectGrammar_Composed(self, cfg, text, gen, ruleFault) ==
    LET rules == IF ruleFault THEN Raise ELSE Return(BasicCorrected(text))
        ai == CorrectWithAi(self, text, gen)
        first == IF cfg.USE_BASIC_RULES_FIRST THEN <<Step("rules", rules)>> ELSE <<>>
        useAi == UseAi(self, cfg)
        second == IF useAi THEN first \o <<Step("ai", ai.ret)>> ELSE first
        invoked == IF useAi THEN ai.invoked ELSE 0
        prompts == IF useAi THEN ai.prompts ELSE <<>>
        third == second \o <<Step("rules", rules)>>
    IN IF IsBlank(text)
       THEN [ret |-> Return(text), via |-> "blank", trace |-> <<>>, invoked |-> 0, prompts |-> <<>>]
       ELSE IF cfg.USE_BASIC_RULES_FIRST /\ rules.raised
       THEN \* no handler around strategy 1
            [ret |-> Raise, via |-> "raise", trace |-> first, invoked |-> 0, prompts |-> <<>>]
       ELSE IF cfg.USE_BASIC_RULES_FIRST /\ ShortCircuit(rules.value, text)
       THEN [ret |-> rules, via |-> "rules_first", trace |-> first, invoked |-> 0, prompts |-> <<>>]
       ELSE IF useAi /\ ~ai.ret.raised /\ AcceptAi(ai.ret.value, text)
       THEN [ret |-> Return(ApplyBasicGrammarRules(ai.ret.value)), via |-> "ai", trace |-> second, invoked |-> invoked,
             prompts |-> prompts]
       ELSE IF RulesFallback(cfg) /\ rules.raised
       THEN \* no handler around strategy 3
            [ret |-> Raise, via |-> "raise", trace |-> third, invoked |-> invoked,
             prompts |-> prompts]
       ELSE IF RulesFallback(cfg) /\ rules.value # text
       THEN [ret |-> rules, via |-> "rules_fallback", trace |-> third, invoked |-> invoked,
             prompts |-> prompts]
       ELSE [ret |-> Return(text), via |-> "original",
             trace |-> IF RulesFallback(cfg) THEN third ELSE second, invoked |-> invoked,
             prompts |-> prompts]

\* GrammarCorrectionService.correct_grammar(text).  cfg: the settings;
\* gen: what the pipeline does if invoked; ruleFault: the rule cascade
\* raises instead of returning.  The result records the outcome (ret), the
\* return statement taken (via), the strategies run in order with their
\* outcomes (trace), the number of pipeline invocations (invoked) and the
\* texts the pipeline was invoked with (prompts).
CorrectGrammar(self, cfg, text, gen, ruleFault) ==
    LET rules == IF ruleFault THEN Raise ELSE Return(BasicCorrected(text))
        ai == CorrectWithAi(self, text, gen)
        first == IF cfg.USE_BASIC_RULES_FIRST THEN <<Step("rules", rules)>> ELSE <<>>
        useAi == UseAi(self, cfg)
        second == IF useAi THEN first \o <<Step("ai", ai.ret)>> ELSE first
        invoked == IF useAi THEN ai.invoked ELSE 0
        prompts == IF useAi THEN ai.prompts ELSE <<>>
        third == second \o <<Step("rules", rules)>>
    IN IF IsBlank(text)
       THEN [ret |-> Return(text), via |-> "blank", trace |-> <<>>, invoked |-> 0, prompts |-> <<>>]
       ELSE IF cfg.USE_BASIC_RULES_FIRST /\ rules.raised
       THEN \* no handler around strategy 1
            [ret |-> Raise, via |-> "raise", trace |-> first, invoked |-> 0, prompts |-> <<>>]
       ELSE IF cfg.USE_BASIC_RULES_FIRST /\ ShortCircuit(rules.value, text)
       THEN [ret |-> rules, via |-> "rules_first", trace |-> first, invoked |-> 0, prompts |-> <<>>]
       ELSE IF useAi /\ ~ai.ret.raised /\ AcceptAi(ai.ret.value, text)
       THEN [ret |-> ai.ret, via |-> "ai", trace |-> second, invoked |-> invoked,
             prompts |-> prompts]
       ELSE IF RulesFallback(cfg) /\ rules.raised
       THEN \* no handler around strategy 3
            [ret |-> Raise, via |-> "raise", trace |-> third, invoked |-> invoked,
             prompts |-> prompts]
       ELSE IF RulesFallback(cfg) /\ rules.value # text
       THEN [ret |-> rules, via |-> "rules_fallback", trace |-> third, invoked |-> invoked,
             prompts |-> prompts]
       ELSE [ret |-> Return(text), via |-> "original",
             trace |-> IF RulesFallback(cfg) THEN third ELSE second, invoked |-> invoked,
             prompts |-> prompts]

\* the module global _grammar_service holds None (<<>>) or the one
\* instance (<<self>>)
NoService == <<>>

\* a singleton that is constructed again while its pipeline is not loaded
GetGrammarService_Retry(service, loadCount, loadOutcome) ==
    IF service = NoService \/ service[1].pipeline = None
    THEN [service |-> <<LoadModel(loadOutcome)>>, loads |-> loadCount + 1]
    ELSE [service |-> service, loads |-> loadCount]

\* get_grammar_service(): the singleton after the call and the number of
\* _load_model runs so far; loadOutcome is used only if it constructs
GetGrammarService(service, loadCount, loadOutcome) ==
    IF service = NoService
    THEN [service |-> <<LoadModel(loadOutcome)>>, loads |-> loadCount + 1]
    ELSE [service |-> service, loads |-> loadCount]

\* GrammarCorrectionService.get_model_info()["model_loaded"]
ModelLoaded(self) == self.pipeline # None

(***************************************************************************)
(* State                                                                   *)
(***************************************************************************)
VARIABLES
    settings,        \* config.settings: the two policy flags
    grammar_service, \* services._grammar_service: NoService or <<instance>>
    loads,           \* number of _load_model runs so far
    pipelineCalls,   \* number of pipeline invocations so far
    calls,           \* number of calls made so far
    last,            \* the last call: operation, arguments and what it did
    threads,         \* per thread inside services.correct_grammar: its position
                     \* and locals
    db,              \* the database: users, grammar_corrections, token_blacklist
    response,        \* the last HTTP request and the response it got
    cascade,         \* one run of _apply_basic_grammar_rules, rule by rule
    loop,            \* the server's event loop and the requests in flight
    now,             \* the clock read by create_user_token, in ticks
    issued           \* the access tokens issued so far, in order

vars == <<settings, grammar_service, loads, pipelineCalls, calls, last, threads,
          db, response, cascade, loop, now, issued>>

\* number of threads that may be inside services.correct_grammar at once
MaxThreads == 2

Threads == 1..MaxThreads

\* a thread that has not entered services.correct_grammar
Idle == [pc |-> "idle", text |-> "", made |-> NoService, service |-> NoService]

NoCall == [op |-> "none", text |-> "", gen |-> GenRaise, fault |-> FALSE,
           ret |-> Return(""), via |-> "", trace |-> <<>>, invoked |-> 0, prompts |-> <<>>]

\* registered accounts (users.id); the tables start with these users and
\* no correction and no revoked token
UserIds == {1, 2}

\* the users row of each account: email, hashed_password, role
Account(email, password, role) ==
    [email |-> email, password |-> password, role |-> role]

EmptyDb ==
    [users |-> UserIds, corrections |-> <<>>, blacklist |-> {},
     accounts |-> [u \in UserIds |->
                     Account(IF u = 1 THEN "a@x" ELSE "b@x", "p", "user")]]

\* no HTTP request made yet
NoRequest == [op |-> "none", token |-> <<>>, text |-> "", id |-> 0, user |-> 0,
              status |-> 0, body |-> <<>>]

\* no run of the cascade is being followed
NoCascade == [pc |-> "idle", text |-> "", k |-> 0, buf |-> "", ret |-> ""]

\* number of clients with a request in flight at once
MaxClients == 2

\* the event loop runs no handler (running = 0) and no request is in flight
IdleLoop ==
    [running |-> 0,
     requests |-> [c \in 1..MaxClients |-> [kind |-> "none", pc |-> "closed"]]]

Init ==
    /\ settings \in [USE_BASIC_RULES_FIRST : BOOLEAN, USE_AI_MODEL_FALLBACK : BOOLEAN]
    /\ grammar_service = NoService
    /\ loads = 0
    /\ pipelineCalls = 0
    /\ calls = 0
    /\ last = NoCall
    /\ threads = [t \in Threads |-> Idle]
    /\ db = EmptyDb
    /\ response = NoRequest
    /\ cascade = NoCascade
    /\ loop = IdleLoop
    /\ now = 0
    /\ issued = <<>>

\* services.correct_grammar(text): get the singleton, then correct
CorrectGrammarCall(text, loadOutcome, gen, ruleFault) ==
    /\ calls < MaxCalls
    /\ LET got == GetGrammarService(grammar_service, loads, loadOutcome)
           r == CorrectGrammar(got.service[1], settings, text, gen, ruleFault)
       IN /\ grammar_service' = got.service
          /\ loads' = got.loads
          /\ pipelineCalls' = pipelineCalls + r.invoked
          /\ last' = [op |-> "correct_grammar", text |-> text, gen |-> gen,
                      fault |-> ruleFault, ret |-> r.ret, via |-> r.via,
                      trace |-> r.trace, invoked |-> r.invoked,
                      prompts |-> r.prompts]
    /\ calls' = calls + 1
    /\ UNCHANGED <<settings, threads, db, response, cascade, loop, now, issued>>

\* services.get_model_info()
GetModelInfoCall(loadOutcome) ==
    /\ calls < MaxCalls
    /\ LET got == GetGrammarService(grammar_service, loads, loadOutcome)
       IN /\ grammar_service' = got.service
          /\ loads' = got.loads
          /\ last' = [NoCall EXCEPT !.op = "get_model_info",
                         !.ret = Return(IF ModelLoaded(got.service[1]) THEN "True" ELSE "False")]
    /\ calls' = calls + 1
    /\ UNCHANGED <<settings, pipelineCalls, threads, db, response, cascade, loop, now, issued>>

\* a direct call of _correct_with_ai on the constructed service
CorrectWithAiCall(text, gen) ==
    /\ calls < MaxCalls
    /\ grammar_service # NoService
    /\ LET r == CorrectWithAi(grammar_service[1], text, gen)
       IN /\ pipelineCalls' = pipelineCalls + r.invoked
          /\ last' = [NoCall EXCEPT !.op = "_correct_with_ai", !.text = text,
                         !.gen = gen, !.ret = r.ret, !.invoked = r.invoked,
                         !.prompts = r.prompts]
    /\ calls' = calls + 1
    /\ UNCHANGED <<settings, grammar_service, loads, threads, db, response, cascade, loop, now, issued>>

\* a direct call of _apply_basic_grammar_rules on the constructed service
ApplyRulesCall(text) ==
    /\ calls < MaxCalls
    /\ grammar_service # NoService
    /\ last' = [NoCall EXCEPT !.op = "_apply_basic_grammar_rules", !.text = text,
                   !.ret = Return(BasicCorrected(text)),
                   !.trace = <<Step("rules", Return(BasicCorrected(text)))>>]
    /\ calls' = calls + 1
    /\ UNCHANGED <<settings, grammar_service, loads, pipelineCalls, threads, db, response, cascade, loop, now, issued>>

\* the load outcome matters only to the call that constructs the service
LoadChoices == IF grammar_service = NoService THEN LoadOutcomes ELSE {"ok"}

Next ==
    \/ \E text \in Inputs, lo \in LoadChoices :
          \E gen \in PipelineOutcomes(text) : CorrectGrammarCall(text, lo, gen, FALSE)
    \/ \E lo \in LoadChoices : GetModelInfoCall(lo)
    \/ \E text \in Inputs : \E gen \in PipelineOutcomes(text) : CorrectWithAiCall(text, gen)
    \/ \E text \in Inputs : ApplyRulesCall(text)

Spec == Init /\ [][Next]_vars

\* the same program when an unexpected failure can strike inside the rule
\* cascade (the call of _apply_basic_grammar_rules raises)
NextFault ==
    \/ \E text \in Inputs, lo \in LoadChoices, ruleFault \in BOOLEAN :
          \E gen \in PipelineOutcomes(text) : CorrectGrammarCall(text, lo, gen, ruleFault)
    \/ \E lo \in LoadChoices : GetModelInfoCall(lo)
    \/ \E text \in Inputs : \E gen \in PipelineOutcomes(text) : CorrectWithAiCall(text, gen)
    \/ \E text \in Inputs : ApplyRulesCall(text)

SpecFault == Init /\ [][NextFault]_vars

(***************************************************************************)
(* The rule cascade on its own: _apply_basic_grammar_rules applied to a    *)
(* text, and applied again to its own result.                              *)
(***************************************************************************)
\* longest text handed to the cascade
MaxLen == 3

\* the characters of those texts: a blank, a tab, a full stop, an article /
\* vowel, the pronoun in both cases
RuleAlphabet == {" ", "\t", ".", "a", "i", "I"}

\* sentences handed to the cascade besides the short texts: repeated
\* determiners, words separated by a run of blanks, the go/goes inputs of
\* tests/test_grammar_service.py, and blanks, tabs and newlines around
\* sentence punctuation
RuleSentences ==
    {"a a apple", "do  not go", "I go to school", "I goes to the store",
     "he go to school", "they goes to school", "we go to school",
     "it  works \t. ok\n", "is it ok ?yes", "i dont  go . "}

RECURSIVE Texts(_)
\* every text of at most n characters
Texts(n) ==
    IF n = 0 THEN {""}
    ELSE UNION {{s} \cup {s \o c : c \in RuleAlphabet} : s \in Texts(n - 1)}

RuleTexts == Texts(MaxLen) \cup RuleSentences

RulesOp == "_apply_basic_grammar_rules"

\* a text is about to be handed to the cascade
InitRules ==
    /\ settings = [USE_BASIC_RULES_FIRST |-> TRUE, USE_AI_MODEL_FALLBACK |-> TRUE]
    /\ grammar_service = NoService
    /\ loads = 0
    /\ pipelineCalls = 0
    /\ calls = 0
    /\ last \in {[NoCall EXCEPT !.text = t] : t \in RuleTexts}
    /\ threads = [t \in Threads |-> Idle]
    /\ db = EmptyDb
    /\ response = NoRequest
    /\ cascade = NoCascade
    /\ loop = IdleLoop
    /\ now = 0
    /\ issued = <<>>

\* _apply_basic_grammar_rules(text)
ApplyCascade ==
    /\ last.op = "none"
    /\ \E out \in {ApplyBasicGrammarRules(last.text)} :
          last' = [NoCall EXCEPT !.op = RulesOp, !.text = last.text, !.ret = Return(out)]
    /\ calls' = calls + 1
    /\ UNCHANGED <<settings, grammar_service, loads, pipelineCalls, threads, db, response, cascade, loop, now, issued>>

\* _apply_basic_grammar_rules applied to the result of the previous run
ApplyCascadeAgain ==
    /\ last.op = RulesOp
    /\ calls < MaxCalls
    /\ \E out \in {ApplyBasicGrammarRules(last.ret.value)} :
          last' = [NoCall EXCEPT !.op = RulesOp, !.text = last.ret.value,
                                 !.ret = Return(out)]
    /\ calls' = calls + 1
    /\ UNCHANGED <<settings, grammar_service, loads, pipelineCalls, threads, db, response, cascade, loop, now, issued>>

NextRules == ApplyCascade \/ ApplyCascadeAgain

SpecRules == InitRules /\ [][NextRules]_vars

(***************************************************************************)
(* Threads inside services.correct_grammar.  get_grammar_service has no    *)
(* lock: a thread can be preempted between the test of the global, the     *)
(* construction (which loads the model and releases the interpreter lock   *)
(* during I/O), the assignment and the return.  In these steps the          *)
(* reference held by _grammar_service is <<instance, id>>, id being the     *)
(* number of the construction that made the object (its identity).         *)
(***************************************************************************)
\* texts the threads ask to correct
ThreadInputs == {"you is", "OK"}

\* services.correct_grammar(text) is entered: get_grammar_service() is called
EnterCorrectGrammar(t, text) ==
    /\ threads[t].pc = "idle"
    /\ threads' = [threads EXCEPT ![t].pc = "check", ![t].text = text]
    /\ UNCHANGED <<settings, grammar_service, loads, pipelineCalls, calls, last, db, response, cascade, loop, now, issued>>

\* "if _grammar_service is None:"
TestGlobal(t) ==
    /\ threads[t].pc = "check"
    /\ threads' = [threads EXCEPT ![t].pc =
                      IF grammar_service = NoService THEN "construct" ELSE "return"]
    /\ UNCHANGED <<settings, grammar_service, loads, pipelineCalls, calls, last, db, response, cascade, loop, now, issued>>

\* "GrammarCorrectionService()": __init__ runs _load_model
Construct(t, loadOutcome) ==
    /\ threads[t].pc = "construct"
    /\ loads' = loads + 1
    /\ threads' = [threads EXCEPT ![t].pc = "assign",
                                  ![t].made = <<LoadModel(loadOutcome), loads + 1>>]
    /\ UNCHANGED <<settings, grammar_service, pipelineCalls, calls, last, db, response, cascade, loop, now, issued>>

\* "_grammar_service = ..."
AssignGlobal(t) ==
    /\ threads[t].pc = "assign"
    /\ grammar_service' = threads[t].made
    /\ threads' = [threads EXCEPT ![t].pc = "return"]
    /\ UNCHANGED <<settings, loads, pipelineCalls, calls, last, db, response, cascade, loop, now, issued>>

\* "return _grammar_service": the global is read again
ReturnGlobal(t) ==
    /\ threads[t].pc = "return"
    /\ threads' = [threads EXCEPT ![t].pc = "correct", ![t].service = grammar_service]
    /\ UNCHANGED <<settings, grammar_service, loads, pipelineCalls, calls, last, db, response, cascade, loop, now, issued>>

\* "return service.correct_grammar(text)" on the instance obtained
CorrectOnService(t, gen) ==
    /\ threads[t].pc = "correct"
    /\ LET r == CorrectGrammar(threads[t].service[1], settings, threads[t].text,
                               gen, FALSE)
       IN /\ pipelineCalls' = pipelineCalls + r.invoked
          /\ last' = [op |-> "correct_grammar", text |-> threads[t].text, gen |-> gen,
                      fault |-> FALSE, ret |-> r.ret, via |-> r.via,
                      trace |-> r.trace, invoked |-> r.invoked,
                      prompts |-> r.prompts]
    /\ calls' = calls + 1
    /\ threads' = [threads EXCEPT ![t].pc = "done"]
    /\ UNCHANGED <<settings, grammar_service, loads, db, response, cascade, loop, now, issued>>

NextThreads ==
    \/ \E t \in Threads, text \in ThreadInputs : EnterCorrectGrammar(t, text)
    \/ \E t \in Threads : TestGlobal(t)
    \/ \E t \in Threads, lo \in LoadOutcomes : Construct(t, lo)
    \/ \E t \in Threads : AssignGlobal(t)
    \/ \E t \in Threads : ReturnGlobal(t)
    \/ \E t \in Threads : \E gen \in PipelineOutcomes(threads[t].text) :
          CorrectOnService(t, gen)

SpecThreads == Init /\ [][NextThreads]_vars

(***************************************************************************)
(* The HTTP layer: bearer tokens (auth.py), the tables (crud.py) and the   *)
(* routes of routes/grammar.py, routes/users.py and routes/database.py.    *)
(* A user is its id; Python's None is <<>> and an object x is <<x>>.       *)
(***************************************************************************)
\* the id of an account that has been deleted since its token was issued
DeletedUserId == 3

\* create_user_token(user_id) called when the clock reads at whole seconds
\* (int(now.timestamp())): the signed token, with its subject and its token
\* id "token_<user_id>_<at>"
CreateUserToken(user_id, at) ==
    [ok |-> TRUE, sub |-> user_id, jti |-> <<"token", user_id, at>>]

\* a bearer string that jwt.decode rejects (bad signature, expired, wrong
\* audience or issuer) or whose type is not "access"
BadToken == [ok |-> FALSE, sub |-> 0, jti |-> <<"token", 0, 0>>]

\* the bearer tokens requests present
Tokens == {CreateUserToken(u, 0) : u \in UserIds \cup {DeletedUserId}} \cup {BadToken}

\* verify_token(token): the payload or None
VerifyToken(token) == IF token.ok THEN <<token>> ELSE <<>>

\* crud.is_token_blacklisted(db, jti)
IsTokenBlacklisted(d, jti) == jti \in d.blacklist

\* crud.blacklist_token(db, jti, user_id, expires_at)
BlacklistToken(d, jti) == [d EXCEPT !.blacklist = @ \cup {jti}]

\* crud.get_user(db, user_id): the user or None
GetUser(d, user_id) == IF user_id \in d.users THEN <<user_id>> ELSE <<>>

\* get_current_user(credentials, db): the user, or None where the code
\* raises the 401 credentials_exception
GetCurrentUser(d, token) ==
    LET payload == VerifyToken(token)
    IN IF payload = <<>> THEN <<>>
       ELSE IF IsTokenBlacklisted(d, payload[1].jti) THEN <<>>
       ELSE GetUser(d, payload[1].sub)

\* the integer primary key SQLite gives the next row: one more than the
\* largest id in the table
NextId(rows) ==
    IF rows = <<>> THEN 1
    ELSE 1 + CHOOSE m \in {rows[i].id : i \in DOMAIN rows} :
                 \A i \in DOMAIN rows : rows[i].id <= m

\* the row is stored with no user
CreateCorrection_NoUser(d, original_text, corrected_text, user_id) ==
    [d EXCEPT !.corrections =
        Append(@, [id |-> NextId(@), original_text |-> original_text,
                   corrected_text |-> corrected_text, user_id |-> 0])]

\* crud.create_correction(db, original_text, corrected_text, user_id): the
\* table keeps its rows in the order of their creation
CreateCorrection(d, original_text, corrected_text, user_id) ==
    [d EXCEPT !.corrections =
        Append(@, [id |-> NextId(@), original_text |-> original_text,
                   corrected_text |-> corrected_text, user_id |-> user_id])]

\* crud.get_correction(db, correction_id): the row or None
CrudGetCorrection(d, correction_id) ==
    LET found == SelectSeq(d.corrections, LAMBDA c : c.id = correction_id)
    IN IF found = <<>> THEN <<>> ELSE <<found[1]>>

\* crud.delete_correction(db, correction_id): [success, db]
CrudDeleteCorrection(d, correction_id) ==
    IF CrudGetCorrection(d, correction_id) = <<>>
    THEN [success |-> FALSE, db |-> d]
    ELSE [success |-> TRUE,
          db |-> [d EXCEPT !.corrections =
                     SelectSeq(@, LAMBDA c : c.id # correction_id)]]

\* order_by(desc(created_at))
NewestFirst(rows) == [i \in 1..Len(rows) |-> rows[Len(rows) + 1 - i]]

\* .offset(skip).limit(limit)
Page(rows, skip, limit) ==
    SubSeq(rows, skip + 1, IF skip + limit < Len(rows) THEN skip + limit ELSE Len(rows))

\* crud.get_user_corrections(db, user_id, skip, limit)
GetUserCorrections(d, user_id, skip, limit) ==
    Page(NewestFirst(SelectSeq(d.corrections, LAMBDA c : c.user_id = user_id)),
         skip, limit)

\* crud.get_correction_count_by_user(db, user_id)
GetCorrectionCountByUser(d, user_id) ==
    Len(SelectSeq(d.corrections, LAMBDA c : c.user_id = user_id))

\* column.contains(query), SQL "LIKE '%query%'", which SQLite evaluates
\* ignoring the case of ASCII letters (query without the wildcards % and _)
Contains(text, query) ==
    \E i \in 1..(Len(text) + 1) : LitAt(text, i, query)

\* crud.search_corrections(db, query, skip, limit)
CrudSearchCorrections(d, query, skip, limit) ==
    Page(NewestFirst(SelectSeq(d.corrections,
            LAMBDA c : Contains(c.original_text, query)
                          \/ Contains(c.corrected_text, query))),
         skip, limit)

\* a request and its response: the route, the bearer token, text and id it
\* carried, the authenticated user (0 if none), the status and the body
Reply(op, token, text, id, user, status, body) ==
    [op |-> op, token |-> token, text |-> text, id |-> id, user |-> user,
     status |-> status, body |-> body]

\* what a route handler did: the response and the tables it leaves
Handled(status, body, d) == [status |-> status, body |-> body, db |-> d]

\* every row passes the ownership test
Owned_Anyone(correction, current_user) == TRUE

\* "correction.user_id != current_user.id" negated; also the filter
\* "c.user_id == current_user.id"
Owned(correction, current_user) == correction.user_id = current_user

\* what create_correction does when the database fails: nothing stored
\* (add or commit raises), or the row stored and refresh raises
DbFaults == {"none", "commit", "refresh"}

\* routes/grammar.py correct_text after the dependencies: ret is the outcome
\* of services.correct_grammar(request.text)
CorrectTextHandler(d, current_user, text, ret, dbFault) ==
    IF ret.raised \/ dbFault = "commit"
    THEN Handled(500, "Grammar correction failed", d)
    ELSE IF dbFault = "refresh"
    THEN Handled(500, "Grammar correction failed",
                 CreateCorrection(d, text, ret.value, current_user))
    ELSE Handled(200, [original |-> text, corrected |-> ret.value],
                 CreateCorrection(d, text, ret.value, current_user))

\* routes/grammar.py correct_text_anonymous
CorrectTextAnonymousHandler(d, text, ret) ==
    IF ret.raised
    THEN Handled(500, "Grammar correction failed", d)
    ELSE Handled(200, [original |-> text, corrected |-> ret.value], d)

\* "request = Request()" in logout_user: starlette's Request takes the ASGI
\* scope as a required argument, so the call raises TypeError
NewRequest == Raise

\* routes/users.py logout_user after the dependencies
LogoutUserHandler(d, current_user, token) ==
    IF NewRequest.raised
    THEN \* except Exception
         Handled(200, [token_revoked |-> FALSE], d)
    ELSE LET payload == VerifyToken(token)
         IN IF payload # <<>>
            THEN Handled(200, [token_revoked |-> TRUE],
                         BlacklistToken(d, payload[1].jti))
            ELSE Handled(200, [token_revoked |-> FALSE], d)

\* routes/database.py list_corrections
ListCorrectionsHandler(d, current_user, page, per_page) ==
    Handled(200,
            [corrections |-> GetUserCorrections(d, current_user,
                                                (page - 1) * per_page, per_page),
             total |-> GetCorrectionCountByUser(d, current_user)],
            d)

\* routes/database.py get_correction
GetCorrectionHandler(d, current_user, correction_id) ==
    LET correction == CrudGetCorrection(d, correction_id)
    IN IF correction = <<>> THEN Handled(404, "Correction not found", d)
       ELSE IF ~Owned(correction[1], current_user)
       THEN Handled(403, "Access denied", d)
       ELSE Handled(200, correction[1], d)

\* routes/database.py get_recent_corrections
GetRecentCorrectionsHandler(d, current_user, limit) ==
    Handled(200, [corrections |-> GetUserCorrections(d, current_user, 0, limit)], d)

\* routes/database.py search_corrections
SearchCorrectionsHandler(d, current_user, query, page, per_page) ==
    Handled(200,
            [corrections |->
                SelectSeq(CrudSearchCorrections(d, query, (page - 1) * per_page, per_page),
                          LAMBDA c : Owned(c, current_user))],
            d)

\* routes/database.py get_corrections_by_date_range: wellFormed says whether
\* both dates parse, inRange holds the ids of the rows created in the range
GetCorrectionsByDateRangeHandler(d, current_user, wellFormed, inRange) ==
    IF ~wellFormed THEN Handled(400, "Invalid date format. Use YYYY-MM-DD", d)
    ELSE Handled(200,
                 [corrections |->
                     SelectSeq(NewestFirst(SelectSeq(d.corrections,
                                                     LAMBDA c : c.id \in inRange)),
                               LAMBDA c : Owned(c, current_user))],
                 d)

\* routes/database.py delete_correction
DeleteCorrectionHandler(d, current_user, correction_id) ==
    LET correction == CrudGetCorrection(d, correction_id)
        deleted == CrudDeleteCorrection(d, correction_id)
    IN IF correction = <<>> THEN Handled(404, "Correction not found", d)
       ELSE IF ~Owned(correction[1], current_user)
       THEN Handled(403, "Access denied", d)
       ELSE IF ~deleted.success THEN Handled(404, "Correction not found", deleted.db)
       ELSE Handled(200, "Correction deleted successfully", deleted.db)

\* texts, pipeline behaviours and load outcomes of the HTTP requests
HttpTexts == {"you is", "OK"}

HttpPipeline(text) == {GenRaise, GenResult(<<"It is fine.">>)}

HttpLoadChoices == IF grammar_service = NoService THEN {"ok", "model_fails"} ELSE {"ok"}

\* correction ids requests name: those that can exist and one more
CorrectionIds == 1..(MaxCalls + 1)

\* page and per_page of a listing: the defaults, and the second page of
\* pages of one row
Paging == {<<1, 20>>, <<2, 1>>}

Queries == {"", "you"}

\* which rows a date range selects
DateRanges == {{}, {1}, CorrectionIds}

\* an authenticated route that leaves the service alone: the dependency
\* get_current_user answers 401, or the handler runs; handler[user] is
\* what the handler does for the authenticated user
Serve(op, token, id, handler) ==
    /\ \E current_user \in {GetCurrentUser(db, token)} :
          IF current_user = <<>>
          THEN /\ response' = Reply(op, token, "", id, 0, 401,
                                    "Could not validate credentials")
               /\ db' = db
          ELSE \E h \in {handler[current_user[1]]} :
                  /\ response' = Reply(op, token, "", id, current_user[1],
                                       h.status, h.body)
                  /\ db' = h.db
    /\ UNCHANGED <<settings, grammar_service, loads, pipelineCalls, calls, last, threads, cascade, loop, now, issued>>

\* POST /correct/
CorrectText(token, text, loadOutcome, gen, ruleFault, dbFault) ==
    /\ calls < MaxCalls
    /\ \E current_user \in {GetCurrentUser(db, token)} :
          IF current_user = <<>>
          THEN /\ response' = Reply("correct_text", token, text, 0, 0, 401,
                                    "Could not validate credentials")
               /\ UNCHANGED <<grammar_service, loads, pipelineCalls, calls, last, db>>
          ELSE \E got \in {GetGrammarService(grammar_service, loads, loadOutcome)} :
               \E r \in {CorrectGrammar(got.service[1], settings, text, gen, ruleFault)} :
               \E h \in {CorrectTextHandler(db, current_user[1], text, r.ret, dbFault)} :
                  /\ grammar_service' = got.service
                  /\ loads' = got.loads
                  /\ pipelineCalls' = pipelineCalls + r.invoked
                  /\ last' = [op |-> "correct_grammar", text |-> text, gen |-> gen,
                              fault |-> ruleFault, ret |-> r.ret, via |-> r.via,
                              trace |-> r.trace, invoked |-> r.invoked,
                      prompts |-> r.prompts]
                  /\ calls' = calls + 1
                  /\ response' = Reply("correct_text", token, text, 0, current_user[1],
                                       h.status, h.body)
                  /\ db' = h.db
    /\ UNCHANGED <<settings, threads, cascade, loop, now, issued>>

\* POST /correct/anonymous
CorrectTextAnonymous(text, loadOutcome, gen, ruleFault) ==
    /\ calls < MaxCalls
    /\ \E got \in {GetGrammarService(grammar_service, loads, loadOutcome)} :
       \E r \in {CorrectGrammar(got.service[1], settings, text, gen, ruleFault)} :
       \E h \in {CorrectTextAnonymousHandler(db, text, r.ret)} :
          /\ grammar_service' = got.service
          /\ loads' = got.loads
          /\ pipelineCalls' = pipelineCalls + r.invoked
          /\ last' = [op |-> "correct_grammar", text |-> text, gen |-> gen,
                      fault |-> ruleFault, ret |-> r.ret, via |-> r.via,
                      trace |-> r.trace, invoked |-> r.invoked,
                      prompts |-> r.prompts]
          /\ calls' = calls + 1
          /\ response' = Reply("correct_text_anonymous", <<>>, text, 0, 0,
                               h.status, h.body)
          /\ db' = h.db
    /\ UNCHANGED <<settings, threads, cascade, loop, now, issued>>

\* POST /users/logout
LogoutUser(token) ==
    Serve("logout_user", token, 0,
          [current_user \in db.users |-> LogoutUserHandler(db, current_user, token)])

\* GET /corrections/
ListCorrections(token, page, per_page) ==
    Serve("list_corrections", token, 0,
          [current_user \in db.users |->
              ListCorrectionsHandler(db, current_user, page, per_page)])

\* GET /corrections/{correction_id}
GetCorrection(token, correction_id) ==
    Serve("get_correction", token, correction_id,
          [current_user \in db.users |-> GetCorrectionHandler(db, current_user, correction_id)])

\* GET /corrections/recent
GetRecentCorrections(token, limit) ==
    Serve("get_recent_corrections", token, 0,
          [current_user \in db.users |-> GetRecentCorrectionsHandler(db, current_user, limit)])

\* GET /corrections/search
SearchCorrections(token, query, page, per_page) ==
    Serve("search_corrections", token, 0,
          [current_user \in db.users |->
              SearchCorrectionsHandler(db, current_user, query, page, per_page)])

\* GET /corrections/date-range
GetCorrectionsByDateRange(token, wellFormed, inRange) ==
    Serve("get_corrections_by_date_range", token, 0,
          [current_user \in db.users |->
              GetCorrectionsByDateRangeHandler(db, current_user, wellFormed, inRange)])

\* DELETE /corrections/{correction_id}
DeleteCorrection(token, correction_id) ==
    Serve("delete_correction", token, correction_id,
          [current_user \in db.users |-> DeleteCorrectionHandler(db, current_user, correction_id)])

NextHttp ==
    \/ \E token \in Tokens, text \in HttpTexts, lo \in HttpLoadChoices,
          ruleFault \in BOOLEAN, dbFault \in DbFaults :
          \E gen \in HttpPipeline(text) :
             CorrectText(token, text, lo, gen, ruleFault, dbFault)
    \/ \E text \in HttpTexts, lo \in HttpLoadChoices, ruleFault \in BOOLEAN :
          \E gen \in HttpPipeline(text) : CorrectTextAnonymous(text, lo, gen, ruleFault)
    \/ \E token \in Tokens : LogoutUser(token)
    \/ \E token \in Tokens, pg \in Paging : ListCorrections(token, pg[1], pg[2])
    \/ \E token \in Tokens, id \in CorrectionIds : GetCorrection(token, id)
    \/ \E token \in Tokens, pg \in Paging : GetRecentCorrections(token, pg[2])
    \/ \E token \in Tokens, query \in Queries, pg \in Paging :
          SearchCorrections(token, query, pg[1], pg[2])
    \/ \E token \in Tokens, wellFormed \in BOOLEAN, inRange \in DateRanges :
          GetCorrectionsByDateRange(token, wellFormed, inRange)
    \/ \E token \in Tokens, id \in CorrectionIds : DeleteCorrection(token, id)

\* the server as deployed: the policy flags have the defaults of
\* config/settings.py, nothing is loaded and no request has been made
InitHttp ==
    /\ settings = [USE_BASIC_RULES_FIRST |-> TRUE, USE_AI_MODEL_FALLBACK |-> TRUE]
    /\ grammar_service = NoService
    /\ loads = 0
    /\ pipelineCalls = 0
    /\ calls = 0
    /\ last = NoCall
    /\ threads = [t \in Threads |-> Idle]
    /\ db = EmptyDb
    /\ response = NoRequest
    /\ cascade = NoCascade
    /\ loop = IdleLoop
    /\ now = 0
    /\ issued = <<>>

SpecHttp == InitHttp /\ [][NextHttp]_vars

(***************************************************************************)
(* The loop of _apply_basic_grammar_rules, one rule per step               *)
(***************************************************************************)
\* the texts whose run through the loop is followed
CascadeTexts == Inputs \cup RuleSentences \cup {"you is not"}

\* "corrected = text": the loop is about to start on the input
InitCascade ==
    /\ settings = [USE_BASIC_RULES_FIRST |-> TRUE, USE_AI_MODEL_FALLBACK |-> TRUE]
    /\ grammar_service = NoService
    /\ loads = 0
    /\ pipelineCalls = 0
    /\ calls = 0
    /\ last = NoCall
    /\ threads = [t \in Threads |-> Idle]
    /\ db = EmptyDb
    /\ response = NoRequest
    /\ cascade \in {[pc |-> "loop", text |-> t, k |-> 0, buf |-> t, ret |-> ""] :
                       t \in CascadeTexts}
    /\ loop = IdleLoop
    /\ now = 0
    /\ issued = <<>>

\* an iteration that substitutes in the text the call was given
ApplyNextRule_OnInput ==
    /\ cascade.pc = "loop"
    /\ cascade.k < Len(corrections)
    /\ cascade' = [cascade EXCEPT !.k = @ + 1,
                                  !.buf = ReSub(corrections[cascade.k + 1], cascade.text)]
    /\ UNCHANGED <<settings, grammar_service, loads, pipelineCalls, calls, last,
                   threads, db, response, loop, now, issued>>

\* one iteration of "for pattern, replacement in corrections:
\*     corrected = re.sub(pattern, replacement, corrected, flags=re.IGNORECASE)"
ApplyNextRule ==
    /\ cascade.pc = "loop"
    /\ cascade.k < Len(corrections)
    /\ cascade' = [cascade EXCEPT !.k = @ + 1,
                                  !.buf = ReSub(corrections[cascade.k + 1], cascade.buf)]
    /\ UNCHANGED <<settings, grammar_service, loads, pipelineCalls, calls, last,
                   threads, db, response, loop, now, issued>>

\* the list is exhausted: capitalize the first letter, return the text
\* stripped
FinishCascade ==
    /\ cascade.pc = "loop"
    /\ cascade.k = Len(corrections)
    /\ cascade' = [cascade EXCEPT !.pc = "done",
                                  !.ret = Strip(CapitalizeFirst(cascade.buf))]
    /\ UNCHANGED <<settings, grammar_service, loads, pipelineCalls, calls, last,
                   threads, db, response, loop, now, issued>>

NextCascade == ApplyNextRule \/ FinishCascade

SpecCascade == InitCascade /\ [][NextCascade]_vars


(***************************************************************************)
(* The server process: uvicorn runs the application in one process         *)
(* (settings.WORKERS = 1) on one event loop.  A handler declared with      *)
(* "async def" is a coroutine run on the loop's thread; it gives the loop  *)
(* back only at an await.  correct_text and correct_text_anonymous call    *)
(* correct_grammar, a plain function, without an await: from the start of  *)
(* the handler to its return the loop's thread runs nothing else.  The     *)
(* dependencies declared with "def" (get_db, get_current_user) run in the  *)
(* thread pool, the loop being free meanwhile.                             *)
(***************************************************************************)
\* a client sends a request: it waits at the socket for the loop
SendRequest(c, kind) ==
    /\ loop.requests[c].pc = "closed"
    /\ loop' = [loop EXCEPT !.requests[c] = [kind |-> kind, pc |-> "queued"]]
    /\ UNCHANGED <<settings, grammar_service, loads, pipelineCalls, calls, last,
                   threads, db, response, cascade, now, issued>>

\* the loop, running no handler, reads and routes a waiting request; the
\* body is parsed and the dependencies are solved off the loop's thread
AcceptRequest(c) ==
    /\ loop.running = 0
    /\ loop.requests[c].pc = "queued"
    /\ loop' = [loop EXCEPT !.requests[c].pc = "dependencies"]
    /\ UNCHANGED <<settings, grammar_service, loads, pipelineCalls, calls, last,
                   threads, db, response, cascade, now, issued>>

\* a handler that is handed to a worker thread: it starts whatever the loop
\* is running and does not occupy the loop
StartHandler_Offloaded(c) ==
    /\ loop.requests[c].pc = "dependencies"
    /\ loop' = [loop EXCEPT !.requests[c].pc = "handler"]
    /\ UNCHANGED <<settings, grammar_service, loads, pipelineCalls, calls, last,
                   threads, db, response, cascade, now, issued>>

\* the loop, running no handler, starts the handler coroutine of a request
\* whose dependencies are solved
StartHandler(c) ==
    /\ loop.running = 0
    /\ loop.requests[c].pc = "dependencies"
    /\ loop' = [loop EXCEPT !.running = c, !.requests[c].pc = "handler"]
    /\ UNCHANGED <<settings, grammar_service, loads, pipelineCalls, calls, last,
                   threads, db, response, cascade, now, issued>>

\* "corrected_text = correct_grammar(request.text)" reaches self.pipeline(...):
\* a synchronous call on the thread of the handler
EnterInference(c) ==
    /\ loop.requests[c].pc = "handler"
    /\ loop.requests[c].kind \in {"correct_text", "correct_text_anonymous"}
    /\ loop' = [loop EXCEPT !.requests[c].pc = "inference"]
    /\ UNCHANGED <<settings, grammar_service, loads, pipelineCalls, calls, last,
                   threads, db, response, cascade, now, issued>>

\* the pipeline returns; the handler goes on (create_correction, the
\* response body)
LeaveInference(c) ==
    /\ loop.requests[c].pc = "inference"
    /\ loop' = [loop EXCEPT !.requests[c].pc = "after"]
    /\ UNCHANGED <<settings, grammar_service, loads, pipelineCalls, calls, last,
                   threads, db, response, cascade, now, issued>>

\* the handler returns (health_check; a correction the rules settled, with
\* no inference; or after the inference): the response is sent, the
\* request is complete and the loop runs no handler
CompleteRequest(c) ==
    /\ loop.requests[c].pc \in {"handler", "after"}
    /\ loop' = [loop EXCEPT !.running = IF loop.running = c THEN 0 ELSE @,
                            !.requests[c] = IdleLoop.requests[c]]
    /\ UNCHANGED <<settings, grammar_service, loads, pipelineCalls, calls, last,
                   threads, db, response, cascade, now, issued>>

\* the requests followed are those of the two correction routes and of
\* GET /health, which corrects nothing
NextServer ==
    \/ \E c \in DOMAIN loop.requests :
          \E kind \in {"correct_text", "correct_text_anonymous", "health_check"} :
             SendRequest(c, kind)
    \/ \E c \in DOMAIN loop.requests : AcceptRequest(c)
    \/ \E c \in DOMAIN loop.requests : StartHandler(c)
    \/ \E c \in DOMAIN loop.requests : EnterInference(c)
    \/ \E c \in DOMAIN loop.requests : LeaveInference(c)
    \/ \E c \in DOMAIN loop.requests : CompleteRequest(c)

SpecServer == InitHttp /\ [][NextServer]_vars


(***************************************************************************)
(* User management: registration, login, profile and password changes,    *)
(* the admin's update of a user, and the clock create_user_token reads     *)
(***************************************************************************)
\* most access tokens issued, and most seconds the clock advances
MaxTokens == 2

\* the accounts exist; scripts/create_admin.py has made user 1 an admin
InitUsers ==
    /\ settings = [USE_BASIC_RULES_FIRST |-> TRUE, USE_AI_MODEL_FALLBACK |-> TRUE]
    /\ grammar_service = NoService
    /\ loads = 0
    /\ pipelineCalls = 0
    /\ calls = 0
    /\ last = NoCall
    /\ threads = [t \in Threads |-> Idle]
    /\ db = [EmptyDb EXCEPT !.accounts[1].role = "admin"]
    /\ response = NoRequest
    /\ cascade = NoCascade
    /\ loop = IdleLoop
    /\ now = 0
    /\ issued = <<>>

\* POST /users/register: 400 for a registered email; otherwise
\* crud.create_user adds the account with role "user", whatever role the
\* body asks for, and a token is issued for it
RegisterUser(email, password, role) ==
    /\ calls < MaxCalls
    /\ Len(issued) < MaxTokens
    /\ calls' = calls + 1
    /\ IF \E u \in db.users : db.accounts[u].email = email
       THEN /\ response' = Reply("register_user", <<>>, role, 0, 0, 400,
                                 "Email already registered")
            /\ UNCHANGED <<db, issued>>
       ELSE \E id \in {1 + CHOOSE m \in db.users : \A u \in db.users : u <= m} :
            \E token \in {CreateUserToken(id, now)} :
               /\ db' = [db EXCEPT
                           !.users = @ \cup {id},
                           !.accounts = [u \in db.users \cup {id} |->
                                           IF u = id THEN Account(email, password, "user")
                                           ELSE db.accounts[u]]]
               /\ issued' = Append(issued, token)
               /\ response' = Reply("register_user", <<>>, role, id, id, 201, <<token>>)
    /\ UNCHANGED <<settings, grammar_service, loads, pipelineCalls, last, threads,
                   cascade, loop, now>>

\* POST /users/login: authenticate_user by email and password, then a token
\* is issued for the user
LoginUser(email, password) ==
    /\ calls < MaxCalls
    /\ Len(issued) < MaxTokens
    /\ calls' = calls + 1
    /\ \E found \in {{u \in db.users : /\ db.accounts[u].email = email
                                       /\ db.accounts[u].password = password}} :
          IF found = {}
          THEN /\ response' = Reply("login_user", <<>>, "", 0, 0, 401,
                                    "Incorrect email or password")
               /\ issued' = issued
          ELSE \E user \in found : \E token \in {CreateUserToken(user, now)} :
                  /\ issued' = Append(issued, token)
                  /\ response' = Reply("login_user", <<>>, "", user, user, 200, <<token>>)
    /\ UNCHANGED <<settings, grammar_service, loads, pipelineCalls, last, threads,
                   db, cascade, loop, now>>

\* crud.update_user(db, user_id, user_update) and the handlers' "if db_user
\* is None: 404": every field the update sets is written to the row (the
\* unique index on email refuses an email another account holds)
CrudUpdateUser(d, user_id, user_update) ==
    IF user_id \notin d.users
    THEN Handled(404, "User not found", d)
    ELSE IF /\ user_update.email # <<>>
            /\ \E u \in d.users \ {user_id} : d.accounts[u].email = user_update.email[1]
    THEN Handled(500, "Internal Server Error", d)
    ELSE LET row == d.accounts[user_id]
             updated == [row EXCEPT
                           !.email = IF user_update.email = <<>> THEN @
                                     ELSE user_update.email[1],
                           !.role = IF user_update.role = <<>> THEN @
                                    ELSE user_update.role[1]]
         IN Handled(200, <<updated>>, [d EXCEPT !.accounts[user_id] = updated])

\* the update handed on as the request sent it
SafeUpdate_Unfiltered(user_update) == user_update

\* update_current_user: "del update_data['role']", then
\* schemas.UserUpdate(**update_data)
SafeUpdate(user_update) == [user_update EXCEPT !.role = <<>>]

\* the role a body asks for ("" when it names none)
AskedRole(user_update) ==
    IF user_update.role = <<>> THEN "" ELSE user_update.role[1]

\* PUT /users/me
UpdateCurrentUser(token, user_update) ==
    /\ calls < MaxCalls
    /\ calls' = calls + 1
    /\ \E current_user \in {GetCurrentUser(db, token)} :
          IF current_user = <<>>
          THEN /\ response' = Reply("update_current_user", token, AskedRole(user_update),
                                    0, 0, 401, "Could not validate credentials")
               /\ db' = db
          ELSE \E h \in {CrudUpdateUser(db, current_user[1], SafeUpdate(user_update))} :
                  /\ response' = Reply("update_current_user", token,
                                       AskedRole(user_update), current_user[1],
                                       current_user[1], h.status, h.body)
                  /\ db' = h.db
    /\ UNCHANGED <<settings, grammar_service, loads, pipelineCalls, last, threads,
                   cascade, loop, now, issued>>

\* PUT /users/{user_id}, behind get_current_admin_user: 403 unless the
\* current user's role is "admin"
UpdateUser(token, user_id, user_update) ==
    /\ calls < MaxCalls
    /\ calls' = calls + 1
    /\ \E current_user \in {GetCurrentUser(db, token)} :
          IF current_user = <<>>
          THEN /\ response' = Reply("update_user", token, AskedRole(user_update),
                                    user_id, 0, 401, "Could not validate credentials")
               /\ db' = db
          ELSE IF db.accounts[current_user[1]].role # "admin"
          THEN /\ response' = Reply("update_user", token, AskedRole(user_update),
                                    user_id, current_user[1], 403, "Admin access required")
               /\ db' = db
          ELSE \E h \in {CrudUpdateUser(db, user_id, user_update)} :
                  /\ response' = Reply("update_user", token, AskedRole(user_update),
                                       user_id, current_user[1], h.status, h.body)
                  /\ db' = h.db
    /\ UNCHANGED <<settings, grammar_service, loads, pipelineCalls, last, threads,
                   cascade, loop, now, issued>>

\* PUT /users/me/change-password: crud.change_user_password verifies the
\* current password and stores the new one
ChangeCurrentUserPassword(token, current_password, new_password) ==
    /\ calls < MaxCalls
    /\ calls' = calls + 1
    /\ \E current_user \in {GetCurrentUser(db, token)} :
          IF current_user = <<>>
          THEN /\ response' = Reply("change_current_user_password", token, "", 0, 0,
                                    401, "Could not validate credentials")
               /\ db' = db
          ELSE IF db.accounts[current_user[1]].password # current_password
          THEN /\ response' = Reply("change_current_user_password", token, "",
                                    current_user[1], current_user[1], 400,
                                    "Current password is incorrect")
               /\ db' = db
          ELSE /\ response' = Reply("change_current_user_password", token, "",
                                    current_user[1], current_user[1], 200,
                                    "Password changed successfully")
               /\ db' = [db EXCEPT !.accounts[current_user[1]].password = new_password]
    /\ UNCHANGED <<settings, grammar_service, loads, pipelineCalls, last, threads,
                   cascade, loop, now, issued>>

\* a second passes: int(now.timestamp()) grows by one
Tick ==
    /\ now < MaxTokens
    /\ now' = now + 1
    /\ UNCHANGED <<settings, grammar_service, loads, pipelineCalls, calls, last,
                   threads, db, response, cascade, loop, issued>>

\* the bearer tokens requests present: one issued before the run (at
\* second 0) or in it, or a bad one
Presented ==
    {CreateUserToken(u, 0) : u \in UserIds} \cup {issued[i] : i \in DOMAIN issued}
       \cup {BadToken}

\* bodies name a free or a taken email and any role
NextUsers ==
    \/ \E email \in {"a@x", "c@x"}, password \in {"p"}, role \in {"user", "admin"} :
          RegisterUser(email, password, role)
    \/ \E email \in {"a@x", "b@x", "c@x"}, password \in {"p", "q"} :
          LoginUser(email, password)
    \/ \E token \in Presented :
          \E user_update \in [email : {<<>>, <<"a@x">>, <<"c@x">>},
                               role : {<<>>, <<"user">>, <<"admin">>}] :
             UpdateCurrentUser(token, user_update)
    \/ \E token \in Presented, user_id \in 1..3 :
          \E user_update \in [email : {<<>>, <<"a@x">>, <<"c@x">>},
                               role : {<<>>, <<"user">>, <<"admin">>}] :
             UpdateUser(token, user_id, user_update)
    \/ \E token \in Presented :
          \E current_password \in {"p", "q"}, new_password \in {"p", "q"} :
             ChangeCurrentUserPassword(token, current_password, new_password)
    \/ Tick

SpecUsers == InitUsers /\ [][NextUsers]_vars


TypeOK ==
    /\ loads \in 0..1
    /\ calls \in 0..MaxCalls
    /\ pipelineCalls \in 0..calls

(***************************************************************************)
(* Properties                                                              *)
(***************************************************************************)
\* the last call was services.correct_grammar
IsCG == last.op = "correct_grammar"

\* the service instance (once constructed)
Self == grammar_service[1]

\* positions of the trace at which a strategy ran
RulesSteps == {i \in DOMAIN last.trace : last.trace[i].step = "rules"}

AiSteps == {i \in DOMAIN last.trace : last.trace[i].step = "ai"}

\* the model arm of the last call gave a real correction: _correct_with_ai
\* was called and returned a non-empty text other than the input
AiCorrected ==
    \E j \in AiSteps : /\ ~last.trace[j].out.raised
                       /\ last.trace[j].out.value \notin {"", last.text}

\* empty or made of whitespace characters only
WhitespaceOnly(text) == \A i \in 1..Len(text) : IsSpace(CharAt(text, i))

\* C1: in a correct_grammar call with USE_BASIC_RULES_FIRST in which the rule
\* cascade ran and returned a text other than the input, the call returns
\* exactly that text, _correct_with_ai is not called and the pipeline is not
\* invoked (the adapter's call count stays 0 on a first call), whatever
\* USE_AI_MODEL_FALLBACK is and whether or not the pipeline is loaded.
C1_RulesFirstShortCircuit ==
    (/\ IsCG
     /\ settings.USE_BASIC_RULES_FIRST
     /\ \E i \in RulesSteps : /\ ~last.trace[i].out.raised
                              /\ last.trace[i].out.value # last.text)
    => /\ last.ret = Return(BasicCorrected(last.text))
       /\ last.ret.value # last.text
       /\ AiSteps = {}
       /\ last.invoked = 0
       /\ (calls = 1 => pipelineCalls = 0)

C1_Witness ==
    /\ IsCG
    /\ settings.USE_BASIC_RULES_FIRST /\ settings.USE_AI_MODEL_FALLBACK
    /\ Self.pipeline = Loaded
    /\ last.text = "how is you?"
    /\ last.ret = Return("How is you?")
    /\ ~last.gen.raised /\ last.gen.result = <<"It is fine.">>

\* C2: a correct_grammar call runs the rule cascade at most once; with
\* USE_BASIC_RULES_FIRST, when the cascade returned the input unchanged and
\* the model arm gave no correction (not attempted, or _correct_with_ai
\* returned the input), the cascade is not run again and the call returns
\* the input.
C2_SinglePassPerStrategy ==
    IsCG =>
       /\ Cardinality(RulesSteps) <= 1
       /\ (/\ settings.USE_BASIC_RULES_FIRST
           /\ \E i \in RulesSteps : last.trace[i].out = Return(last.text)
           /\ ~AiCorrected)
          => /\ last.ret = Return(last.text)
             /\ RulesSteps = {1}

C2_Witness ==
    /\ IsCG
    /\ settings.USE_BASIC_RULES_FIRST
    /\ last.text = "It works."
    /\ AiSteps # {}
    /\ last.gen.raised
    /\ last.ret = Return("It works.")

\* C3: without USE_BASIC_RULES_FIRST, for an input that is not blank (a
\* blank one is returned before any strategy, C9): the model arm, if
\* attempted, runs before the rule cascade; a real correction of the model
\* arm is returned and the cascade is not run; otherwise the cascade runs
\* exactly once, after the model arm, and the call returns its output when
\* that differs from the input and the input otherwise.
C3_ModelBeforeRules ==
    (IsCG /\ ~settings.USE_BASIC_RULES_FIRST /\ ~WhitespaceOnly(last.text)) =>
       /\ \A j \in AiSteps, i \in RulesSteps : j < i
       /\ AiCorrected =>
             /\ RulesSteps = {}
             /\ \E j \in AiSteps : last.ret = last.trace[j].out
       /\ ~AiCorrected =>
             /\ Cardinality(RulesSteps) = 1
             /\ LET basic == BasicCorrected(last.text)
                IN last.ret = Return(IF basic # last.text THEN basic ELSE last.text)

C3_Witness ==
    /\ IsCG
    /\ ~settings.USE_BASIC_RULES_FIRST
    /\ last.text = "she dont like it"
    /\ last.trace = <<Step("ai", Return("she dont like it")),
                      Step("rules", Return("She don't like it"))>>
    /\ last.ret = Return("She don't like it")

\* C4: the pipeline is invoked (and _correct_with_ai called) in a
\* correct_grammar call only if USE_AI_MODEL_FALLBACK is set and the pipeline
\* is loaded; without USE_AI_MODEL_FALLBACK the model arm is not run and,
\* for either value of USE_BASIC_RULES_FIRST, the call returns the output of
\* the rule cascade it ran when that differs from the input, and the input
\* otherwise.
C4_ModelOnlyIfEnabledAndHealthy ==
    IsCG =>
       /\ (last.invoked > 0 \/ AiSteps # {}) =>
             (settings.USE_AI_MODEL_FALLBACK /\ Self.pipeline = Loaded)
       /\ ~settings.USE_AI_MODEL_FALLBACK =>
             /\ AiSteps = {}
             /\ last.invoked = 0
             /\ ~WhitespaceOnly(last.text) => Cardinality(RulesSteps) = 1
             /\ IF \E i \in RulesSteps : last.trace[i].out.value # last.text
                THEN last.ret = Return(BasicCorrected(last.text))
                ELSE last.ret = Return(last.text)

C4_Witness ==
    /\ IsCG
    /\ ~settings.USE_AI_MODEL_FALLBACK /\ ~settings.USE_BASIC_RULES_FIRST
    /\ Self.pipeline = Loaded
    /\ last.text = "you is"
    /\ last.gen.result = <<"It is fine.">>
    /\ last.ret = Return("You are")

\* C5: correct_grammar never raises, and when a failure struck inside the
\* rule cascade or inside the model arm (the pipeline raised) the returned
\* text is the input.
C5_NeverRaises ==
    IsCG =>
       /\ ~last.ret.raised
       /\ (last.fault \/ (last.invoked > 0 /\ last.gen.raised)) =>
             last.ret = Return(last.text)

\* C6: with the pipeline not loaded (loading failed at construction) and
\* USE_AI_MODEL_FALLBACK set, correct_grammar does not raise, returns the
\* rule-cascade output or the input, and neither calls _correct_with_ai nor
\* invokes the pipeline.
C6_DegradedFallsBack ==
    (IsCG /\ Self.pipeline = None /\ settings.USE_AI_MODEL_FALLBACK) =>
       /\ ~last.ret.raised
       /\ last.ret.value \in {last.text, BasicCorrected(last.text)}
       /\ AiSteps = {}
       /\ last.invoked = 0

C6_Witness ==
    /\ IsCG
    /\ Self.pipeline = None /\ Self.model = Loaded
    /\ settings.USE_AI_MODEL_FALLBACK /\ ~settings.USE_BASIC_RULES_FIRST
    /\ last.text = "you is"
    /\ last.ret = Return("You are")

\* C7: _correct_with_ai never raises, whether called directly or by
\* correct_grammar, and returns the input when the pipeline raises, when the
\* pipeline is not loaded, and when the pipeline returns an empty list.
C7_AdapterNeverRaises ==
    /\ IsCG => \A j \in AiSteps : ~last.trace[j].out.raised
    /\ last.op = "_correct_with_ai" =>
          /\ ~last.ret.raised
          /\ (last.gen.raised \/ Self.pipeline = None \/ last.gen.result = <<>>) =>
                last.ret = Return(last.text)

C7_Witness ==
    /\ last.op = "_correct_with_ai"
    /\ Self.pipeline = Loaded
    /\ last.gen.raised
    /\ last.invoked = 1
    /\ last.ret = Return(last.text)
    /\ last.text = "you is"

\* the model output of the last call, prefix removed and trimmed
Sanitized == CleanPrefix(Strip(last.gen.result[1]))

\* the pipeline was invoked in the last call and returned a text
ModelAnswered == last.invoked > 0 /\ ~last.gen.raised /\ last.gen.result # <<>>

C9_BlankUnchanged ==
    (IsCG /\ WhitespaceOnly(last.text)) =>
       /\ last.ret = Return(last.text)
       /\ last.trace = <<>>
       /\ last.invoked = 0

C9_Witness ==
    /\ IsCG
    /\ last.text = " \t\n"
    /\ settings.USE_BASIC_RULES_FIRST /\ settings.USE_AI_MODEL_FALLBACK
    /\ Self.pipeline = Loaded
    /\ last.ret = Return(" \t\n")

\* C10: _load_model runs exactly once, when the service is constructed; from
\* then on no call changes the instance: a pipeline that failed to load
\* stays None and a loaded model, tokenizer and pipeline stay loaded,
\* whatever the calls do and whether or not the pipeline raises.
C10_LoadedOnce ==
    /\ [](loads = IF grammar_service = NoService THEN 0 ELSE 1)
    /\ [][grammar_service # NoService => grammar_service' = grammar_service]_vars

C10_Witness ==
    /\ IsCG
    /\ calls >= 2
    /\ Self.pipeline = None
    /\ settings.USE_AI_MODEL_FALLBACK
    /\ last.text = "you is"
    /\ pipelineCalls = 0

(***************************************************************************)
(* C11: under any interleaving of concurrent first calls of                *)
(* get_grammar_service (made by concurrent correction requests) the        *)
(* service is constructed and the model loaded exactly once, and every     *)
(* caller obtains the same single instance.                                *)
(***************************************************************************)
\* the instances the threads got back from get_grammar_service()
Obtained == {threads[t].service : t \in {u \in Threads : threads[u].service # NoService}}

C11_ConstructedOnceUnderInterleaving ==
    /\ loads <= 1
    /\ Cardinality(Obtained) <= 1

(***************************************************************************)
(* C12: with the default policy (USE_BASIC_RULES_FIRST true)               *)
(* correct_grammar("how is you?") returns "How are you?".                  *)
(***************************************************************************)
C12_HowIsYou ==
    (IsCG /\ settings.USE_BASIC_RULES_FIRST /\ last.text = "how is you?")
        => last.ret = Return("How are you?")

(***************************************************************************)
(* C13: with the default policy correct_grammar("she dont like it")        *)
(* returns "She doesn't like it".                                          *)
(***************************************************************************)
C13_SheDont ==
    (IsCG /\ settings.USE_BASIC_RULES_FIRST /\ last.text = "she dont like it")
        => last.ret = Return("She doesn't like it")

(***************************************************************************)
(* C14: _apply_basic_grammar_rules called directly returns every empty or  *)
(* whitespace-only input unchanged.                                        *)
(***************************************************************************)
\* the last call was a direct call of the rule cascade
IsRules == last.op = RulesOp

C14_CascadeBlankUnchanged ==
    (IsRules /\ IsBlank(last.text)) => last.ret = Return(last.text)

(***************************************************************************)
(* C15: fixed point of the rule cascade.  When the cascade is run on its   *)
(* own result u and no rule's substitution alters u, the second run        *)
(* returns u.                                                              *)
(***************************************************************************)
\* some rule of the table, applied on its own, changes u
AnyRuleAlters(u) == \E k \in DOMAIN corrections : ReSub(corrections[k], u) # u

C15_FixedPoint ==
    [][(IsRules /\ last'.op = RulesOp /\ last'.text = last.ret.value
            /\ ~AnyRuleAlters(last'.text))
        => last'.ret = Return(last'.text)]_vars

(***************************************************************************)
(* C16: after the rule cascade has run on a non-empty input, the first     *)
(* character of the returned text is never a lowercase letter.             *)
(***************************************************************************)
C16_FirstNotLowercase ==
    (IsRules /\ last.text # "" /\ last.ret.value # "")
        => ~IsLower(CharAt(last.ret.value, 1))

(***************************************************************************)
(* C17: the HTTP correction endpoints never report "correction failed":    *)
(* every POST /correct (authenticated) and POST /correct/anonymous that    *)
(* carries a text is answered 200 with {original, corrected}, original     *)
(* being the request text and corrected the engine's result, also when     *)
(* persisting the correction record fails.                                 *)
(***************************************************************************)
\* the last request reached one of the two correction handlers
Corrected ==
    \/ response.op = "correct_text" /\ response.status # 401
    \/ response.op = "correct_text_anonymous"

C17_NeverCorrectionFailed ==
    Corrected =>
        /\ response.status = 200
        /\ response.body.original = response.text
        /\ response.body.corrected = last.ret.value

(***************************************************************************)
(* C18: logout revokes the token.  After POST /users/logout made with a    *)
(* valid token T has returned, T's jti is in the blacklist, and a later    *)
(* request to an authenticated endpoint presenting T is answered 401.      *)
(***************************************************************************)
\* the last request was a logout that succeeded
LoggedOut == response.op = "logout_user" /\ response.status = 200

C18_LogoutRevokes ==
    /\ [](LoggedOut => IsTokenBlacklisted(db, response.token.jti))
    /\ [][(LoggedOut /\ response'.token = response.token) => response'.status = 401]_vars

(***************************************************************************)
(* C19: user-specific data isolation.  Through the non-admin /corrections  *)
(* endpoints an authenticated user lists, reads, searches or deletes only  *)
(* records whose user_id is their own id; a request for another user's     *)
(* record is answered 403 and leaves the stored records unchanged.         *)
(***************************************************************************)
ListingOps == {"list_corrections", "get_recent_corrections", "search_corrections",
               "get_corrections_by_date_range"}

\* the stored record the last request named belongs to somebody else
NamedOthers ==
    /\ response.op \in {"get_correction", "delete_correction"}
    /\ response.user # 0
    /\ \E i \in DOMAIN db.corrections :
          /\ db.corrections[i].id = response.id
          /\ db.corrections[i].user_id # response.user

\* the rows of the table before a step that are gone after it
Removed(before, after) ==
    {before[i] : i \in {j \in DOMAIN before :
                          \A k \in DOMAIN after : after[k] # before[j]}}

C19_DataIsolation ==
    /\ []((response.op \in ListingOps /\ response.status = 200) =>
            \A i \in DOMAIN response.body.corrections :
                response.body.corrections[i].user_id = response.user)
    /\ []((response.op = "get_correction" /\ response.status = 200) =>
            response.body.user_id = response.user)
    /\ [](NamedOthers => response.status = 403)
    /\ [][response'.status = 403 => db' = db]_vars
    /\ [][\A row \in Removed(db.corrections, db'.corrections) :
             /\ response'.op = "delete_correction"
             /\ row.id = response'.id
             /\ row.user_id = response'.user]_vars

\* a user asked to delete a record of another user and got 403
C19_Witness ==
    /\ response.op = "delete_correction"
    /\ response.status = 403
    /\ NamedOthers

(***************************************************************************)
(* C20: each successful authenticated POST /correct adds exactly one       *)
(* correction record, holding the request text, the corrected text that    *)
(* was returned and the caller's user id; POST /correct/anonymous leaves   *)
(* the stored corrections unchanged.                                       *)
(***************************************************************************)
C20_OneRecordPerCorrection ==
    [][/\ (calls' = calls + 1 /\ response'.op = "correct_text" /\ response'.status = 200) =>
            /\ Len(db'.corrections) = Len(db.corrections) + 1
            /\ SubSeq(db'.corrections, 1, Len(db.corrections)) = db.corrections
            /\ LET row == db'.corrections[Len(db'.corrections)]
               IN /\ row.original_text = response'.text
                  /\ row.original_text = response'.body.original
                  /\ row.corrected_text = response'.body.corrected
                  /\ row.user_id = response'.user
                  /\ row.user_id = response'.token.sub
                  /\ \A i \in DOMAIN db.corrections : db.corrections[i].id # row.id
       /\ (calls' = calls + 1 /\ response'.op = "correct_text_anonymous") =>
            db'.corrections = db.corrections]_vars

\* a second authenticated correction was answered 200 and stored, with a
\* corrected text that differs from the request text
C20_Witness ==
    /\ response.op = "correct_text"
    /\ response.status = 200
    /\ response.body.corrected # response.text
    /\ Len(db.corrections) = 2
    /\ db.corrections[2].corrected_text = response.body.corrected

(***************************************************************************)
(* The sanitizer of the model output                                       *)
(***************************************************************************)
\* the instructional prefixes the sanitizer knows, in the order it tests them
KnownPrefixes ==
    <<"grammar:", "Correct the grammar in this text:", "Corrected text:",
      "Corrected:">>

\* the trimmed raw model output of the last call
RawOutput == Strip(last.gen.result[1])

\* the raw output with only its leading known prefix removed, then trimmed
LeadingPrefixRemoved(raw) ==
    IF \E i \in DOMAIN KnownPrefixes : StartsWith(raw, KnownPrefixes[i])
    THEN LET i == CHOOSE j \in DOMAIN KnownPrefixes :
                     /\ StartsWith(raw, KnownPrefixes[j])
                     /\ \A k \in 1..(j - 1) : ~StartsWith(raw, KnownPrefixes[k])
         IN Strip(SubSeq(raw, Len(KnownPrefixes[i]) + 1, Len(raw)))
    ELSE raw

\* C22: when the raw model output starts with a known prefix, what
\* _correct_with_ai makes of it is the raw output with that leading prefix
\* removed and trimmed, every later character preserved (the input is
\* returned instead when that text is empty or equals the input).
C22_OnlyLeadingPrefixRemoved ==
    (/\ last.op = "_correct_with_ai"
     /\ ModelAnswered
     /\ \E i \in DOMAIN KnownPrefixes : StartsWith(RawOutput, KnownPrefixes[i]))
    => LET expected == LeadingPrefixRemoved(RawOutput)
       IN last.ret = Return(IF expected = last.text \/ expected = ""
                            THEN last.text ELSE expected)

\* C29: the value correct_grammar returns is the input text, the rule
\* cascade applied to the input, or the sanitized model output for the
\* input; the cascade is never applied to model output (a value returned
\* from the model arm is the sanitized output as it is) and the pipeline is
\* only ever invoked with the input text, never with cascade output.
C29_StrategiesNeverComposed ==
    (IsCG /\ ~last.ret.raised) =>
       /\ last.ret.value \in
             {last.text, BasicCorrected(last.text)}
                \cup (IF ModelAnswered THEN {Sanitized} ELSE {})
       /\ last.via = "ai" => (ModelAnswered /\ last.ret.value = Sanitized)
       /\ last.via \in {"rules_first", "rules_fallback"} =>
             last.ret.value = BasicCorrected(last.text)
       /\ Len(last.prompts) = last.invoked
       /\ \A i \in DOMAIN last.prompts : last.prompts[i] = last.text

\* the model arm answered an input the cascade alters (rules-first off), and
\* the answer came back as it was
C29_Witness ==
    /\ IsCG
    /\ ~settings.USE_BASIC_RULES_FIRST
    /\ last.text = "OK"
    /\ last.gen.result = <<"ok">>
    /\ last.prompts = <<"OK">>
    /\ last.via = "ai"
    /\ last.ret = Return("ok")

(***************************************************************************)
(* Completeness of the rule families, read on the text the cascade returns *)
(***************************************************************************)
\* the text the last run of the cascade returned
Out == last.ret.value

\* phrase occurs in u as whole words, ignoring case
HasPhrase(u, phrase) ==
    \E i \in 1..Len(u) :
       /\ LitAt(u, i, phrase)
       /\ AtBoundary(u, i)
       /\ AtBoundary(u, i + Len(phrase))

\* the pattern of rule k matches somewhere in u (the two article rules
\* rewrite every match to a different text)
Matches(k, u) == ReSub(corrections[k], u) # u

\* the two article rules of the table
ArticleRules ==
    {k \in DOMAIN corrections :
        corrections[k].repl \in {<<"an ", "\\2">>, <<"a ", "\\2">>}}

\* C23: the text the cascade returns contains no standalone "a" followed by
\* a word beginning with a vowel letter and no standalone "an" followed by
\* a word beginning with a consonant letter.
C23_ArticlesComplete ==
    IsRules => \A k \in ArticleRules : ~Matches(k, Out)

\* the uncontracted negative forms and the unpunctuated forms the
\* contraction rules rewrite
Uncontracted ==
    {"do not", "does not", "can not", "cannot", "will not", "should not",
     "would not", "could not", "has not", "have not", "had not", "is not",
     "are not", "was not", "were not"}

Unpunctuated ==
    {"dont", "doesnt", "cant", "wont", "shouldnt", "wouldnt", "couldnt",
     "hasnt", "havent", "hadnt", "isnt", "arent", "wasnt", "werent"}

\* C24: the text the cascade returns contains none of the uncontracted
\* negative forms and none of the unpunctuated forms as whole words,
\* however the words of the input were separated by whitespace.
C24_ContractionsComplete ==
    IsRules => \A w \in Uncontracted \cup Unpunctuated : ~HasPhrase(Out, w)

\* C25: in the text the cascade returns the verb agrees with its subject:
\* he/she/it is never followed by "go" and I/we/you/they never by "goes";
\* an input containing "I go to" keeps it.
C25_GoAgreesWithSubject ==
    IsRules =>
       /\ \A subj \in {"he", "she", "it"} : ~HasPhrase(Out, subj \o " go")
       /\ \A subj \in {"I", "we", "you", "they"} : ~HasPhrase(Out, subj \o " goes")
       /\ HasPhrase(last.text, "I go to") => HasPhrase(Out, "I go to")

\* positions of u holding a whitespace character
Blanks(u) == {i \in 1..Len(u) : IsSpace(CharAt(u, i))}

\* C30: the text the cascade returns has no leading or trailing whitespace,
\* no whitespace character other than single spaces, and no whitespace
\* immediately before '.', '!' or '?'.
C30_WhitespaceNormalized ==
    IsRules =>
       /\ 1 \notin Blanks(Out) /\ Len(Out) \notin Blanks(Out)
       /\ \A i \in Blanks(Out) :
             /\ CharAt(Out, i) = " "
             /\ (i + 1) \notin Blanks(Out)
             /\ CharAt(Out, i + 1) \notin {".", "!", "?"}

\* runs of blanks, a tab and a newline, some of them before a full stop
C30_Witness ==
    /\ IsRules
    /\ last.text = "it  works \t. ok\n"
    /\ Out = "It works. ok"

(***************************************************************************)
(* C21: the rule cascade is a single pass in declaration order over one    *)
(* evolving buffer.  Every step of the loop applies the next rule of the   *)
(* table, once, as a case-insensitive all-occurrences substitution on the  *)
(* buffer the preceding rules produced (not on the input); the loop ends   *)
(* after the last rule, no rule being run again, and the text returned is  *)
(* made of the final buffer.                                               *)
(***************************************************************************)
\* the buffer after rules 1..k applied in order to text, each to the result
\* of the one before
AfterRules(k, text) == IF k = 0 THEN text ELSE ApplyRules(1, k, text)

C21_InOrder ==
    cascade.pc # "idle" =>
       /\ cascade.k \in 0..Len(corrections)
       /\ cascade.buf = AfterRules(cascade.k, cascade.text)
       /\ cascade.pc = "done" =>
             /\ cascade.k = Len(corrections)
             /\ cascade.ret = Strip(CapitalizeFirst(cascade.buf))

C21_OneRulePerStep ==
    [][cascade.pc = "loop" =>
          \/ /\ cascade'.pc = "loop"
             /\ cascade'.k = cascade.k + 1
             /\ cascade'.text = cascade.text
             /\ cascade'.buf = ReSub(corrections[cascade'.k], cascade.buf)
          \/ /\ cascade'.pc = "done"
             /\ cascade.k = Len(corrections)
             /\ cascade'.k = cascade.k
             /\ cascade'.buf = cascade.buf]_vars

\* C21: at every point of the loop the buffer is the input with the rules
\* applied so far, in declaration order, each to the result of the one
\* before, and every step applies exactly the next rule, once.
C21_SinglePassInOrder == []C21_InOrder /\ C21_OneRulePerStep

\* a later rule ("are not") fired on what an earlier rule ("you is") wrote
C21_Witness ==
    /\ cascade.pc = "done"
    /\ cascade.text = "you is not"
    /\ cascade.ret = "You aren't"

(***************************************************************************)
(* C26: model inference runs off the main scheduling path.  While one      *)
(* correction request is inside model inference, a request of another      *)
(* client that waits for the server can be taken up: a waiting request can *)
(* be accepted, and an accepted one can have its handler started (and so   *)
(* can be completed).                                                      *)
(***************************************************************************)
\* the request of client c is inside model inference
InInference(c) == loop.requests[c].pc = "inference"

C26_NoHeadOfLineBlocking ==
    \A c \in DOMAIN loop.requests : \A d \in DOMAIN loop.requests \ {c} :
       InInference(c) =>
          /\ loop.requests[d].pc = "queued" => ENABLED AcceptRequest(d)
          /\ loop.requests[d].pc = "dependencies" => ENABLED StartHandler(d)

(***************************************************************************)
(* C27: no role escalation.  Whatever the requests (register with any      *)
(* requested role, login, PUT /users/me with any role value, change of     *)
(* password), an account is created with role "user", and the role of an   *)
(* account changes only in a step that is a request to the admin route     *)
(* made by a user whose role is "admin".                                   *)
(***************************************************************************)
\* this step is a successful PUT /users/{user_id} by an admin
ByAdmin ==
    /\ response'.op = "update_user"
    /\ response'.status = 200
    /\ response'.user \in db.users
    /\ db.accounts[response'.user].role = "admin"

C27_NoRoleEscalation ==
    [][\A u \in db'.users :
          IF u \in db.users
          THEN db'.accounts[u].role # db.accounts[u].role => ByAdmin
          ELSE db'.accounts[u].role = "user"]_vars

\* user 2, not an admin, asked for role "admin" on PUT /users/me, was
\* answered 200 and is still a plain user
C27_Witness ==
    /\ response.op = "update_current_user"
    /\ response.text = "admin"
    /\ response.status = 200
    /\ response.user = 2
    /\ db.accounts[2].role = "user"

(***************************************************************************)
(* C28: every access token issued carries a jti distinct from the jti of   *)
(* every other token issued, also one issued to the same user by a         *)
(* registration or login close in time.                                    *)
(***************************************************************************)
C28_JtiUnique ==
    \A i \in DOMAIN issued : \A j \in DOMAIN issued :
       i # j => issued[i].jti # issued[j].jti

============================================================================
